---- MODULE Spec2Model ----
(***************************************************************************)
(* PathView Flask backend: the session/worker IPC protocol.                *)
(*   worker side      src/pathview/worker.py                               *)
(*   controller side  src/pathview/app.py                                  *)
(* One worker process and one Session object exist per generation g of     *)
(* the single session id that is modelled; the registry maps the id to the *)
(* generation that is currently registered (0 = no entry).                 *)
(***************************************************************************)
EXTENDS Integers, Sequences, FiniteSets, TLC

\* ------------------------------------------------------------------ bounds
MaxGen  == 2      \* Session objects (worker processes) ever created
MaxIn   == 2      \* lines buffered in a worker's stdin pipe
MaxOut  == 2      \* lines buffered in a worker's stdout pipe
MaxEnv  == 3      \* lines the environment writes to a bare worker
MaxLeft == 2      \* entries held in _leftover_queue
MaxCodeQ == 2     \* entries held in _streaming_code_queue
MaxStale == 1     \* stream-control reader threads left blocked on stdin
MaxReq  == 3      \* requests the clients issue
MaxQ    == 2      \* entries held in a Session's _stream_queue
MaxOld  == 1      \* background readers of a Session no longer referenced by it

Clients == {1, 2}  \* request threads of the controller

Gens == 1..MaxGen

\* ----------------------------------------------------------- wire protocol
\* One record shape for every line: type, correlation id (0 = absent),
\* code/expr payload, value payload.
Msg(t, i, c, v) == [type |-> t, id |-> i, code |-> c, val |-> v]

NoneMsg == Msg("None", 0, "", 0)      \* the None that marks EOF in _leftover_queue
Blank   == Msg("blank", 0, "", 0)     \* an empty line
Junk    == Msg("junk", 0, "", 0)      \* a line that is not JSON

Terminal == {"ok", "value", "error"}

\* User code is an input; the model distinguishes it by what it does.
\*   set0/set1 : bind _step to 0 / 1          raise : raise an Exception
\*   hang      : run longer than EXEC_TIMEOUT freeze: block in native code holding the GIL
\*   crash     : end the process (os._exit, segfault)
ExecCodes   == {"set0", "set1", "raise", "hang", "freeze", "crash"}
\*   get  : the expression _step                circ : a value json.dumps rejects
EvalExprs   == {"get", "circ", "raise", "hang"}
\*   gen  : _gen() of test_streaming_lifecycle  inf  : _infinite() of test_stream_stop_then_exec
\*   slow : like inf, each step taking longer than the 6 s wait_for_stream_reader waits
\*   empty: a step returning {'result': None, 'done': False}
\*   fin  : a step returning {'result': 1, 'done': True}
StreamExprs == {"gen", "inf", "slow", "raise", "hang"}
StreamCodes == {"set1", "raise"}
Packages    == {"none", "req_fail", "opt_fail"}

DoneAt  == 2      \* _gen() reports done once _step >= 2
Unbound == 0 - 1  \* a name that is not in the namespace

VARIABLES
    wk,        \* wk[g]: the worker process of generation g
    stdin,     \* stdin[g]: lines written to the worker, not yet read
    inClosed,  \* inClosed[g]: the write end of the worker's stdin is closed
    stdout,    \* stdout[g]: lines written by the worker, not yet read
    hw,        \* hw[g]: history of what the worker emitted (for the properties)
    envLeft,   \* lines the environment may still write (bare-worker specification)
    registry,  \* _sessions: the generation registered under the id, 0 = no entry
    ngen,      \* Session objects created so far
    se,        \* se[g]: the Session object of generation g
    cl,        \* cl[c]: the request thread of client c
    reqLeft,   \* requests the clients may still issue
    stale,     \* cleanup_stale_sessions holds the id in its stale list
    menu,      \* the requests (route, code) the clients choose from
    hs         \* hs[g]: history of the requests on Session g (for the properties)

ctl  == <<registry, ngen, se, cl, reqLeft, stale, menu, hs>>
vars == <<wk, stdin, inClosed, stdout, hw, envLeft, registry, ngen, se, cl, reqLeft,
          stale, menu, hs>>

\* ------------------------------------------------------------- worker state
EmptyNs == [step |-> Unbound, res |-> Unbound, resDone |-> FALSE]

\* The threads that can be inside user code: the thread of the request in
\* progress, and a thread a timed-out request left behind.
Threads == {"target", "late"}

NoWrite == [type |-> "", text |-> 0]

NewWorker ==
    [ alive    |-> FALSE,     \* process is running
      frozen   |-> FALSE,     \* every thread is stuck behind native code
      init     |-> FALSE,     \* _initialized
      ns       |-> EmptyNs,   \* _namespace
      active   |-> FALSE,     \* _streaming_active
      codeq    |-> <<>>,      \* _streaming_code_queue
      leftover |-> <<>>,      \* _leftover_queue
      mpc      |-> "top",     \* where the main thread is
      cur      |-> NoneMsg,   \* the message main() is handling
      thr      |-> "none",    \* the thread of _run_with_timeout
      zombie   |-> FALSE,     \* a timed-out thread that is still running
      rdr      |-> "none",    \* the stream-control reader of the current stream
      stale    |-> 0,         \* readers of ended streams still blocked in readline
      held     |-> NoneMsg,   \* a line a reader has parsed and not yet acted on
      inw      |-> {},        \* the _ProtocolWriters ("stdout", "stderr") whose _in_write is set
      wr       |-> [t \in Threads |-> NoWrite] ]  \* the write() each thread is inside

NewHist ==
    [ replies |-> 0,          \* terminal replies with cur.id since cur was taken up
      entered |-> FALSE,      \* cur is a stream-start that entered its loop
      sdone   |-> 0,          \* stream-done emitted for that stream
      late    |-> FALSE,      \* a stream-data/error of that stream followed its stream-done
      notdone |-> 0,          \* steps of that stream whose result was not done
      ended   |-> "",         \* how its loop ended: done, stop, timeout, fault
      nswrites |-> 0,         \* parity of namespace writes made by user code
      outs    |-> <<>>,       \* texts the code of cur wrote to sys.stdout, in order
      errs    |-> <<>> ]      \* texts the code of cur wrote to sys.stderr, in order

Running(g) == wk[g].alive /\ ~wk[g].frozen

\* ------------------------------------------------------------ Session state
NewSession ==
    [ init      |-> FALSE,    \* _initialized
      streaming |-> FALSE,    \* _streaming
      squeue    |-> <<>>,     \* _stream_queue
      rcur      |-> "none",   \* _stream_reader: None, a live thread, an ended thread
      rold      |-> 0,        \* live background readers _stream_reader no longer names
      lock      |-> 0,        \* the client that holds Session.lock, 0 = free
      helpers   |-> 0,        \* read_line_timeout threads abandoned in readline
      aged      |-> FALSE ]   \* last_active is older than SESSION_TTL

NoRes == [kind |-> "none", id |-> 0, val |-> 0, err |-> "", done |-> FALSE, msgs |-> <<>>,
          stdout |-> <<>>, stderr |-> <<>>]

NewClient ==
    [ pc   |-> "idle",        \* where the request thread is
      op   |-> "",            \* the route it serves
      g    |-> 0,             \* the Session it obtained
      code |-> "",            \* code / expr / packages of the request
      res  |-> NoRes,         \* the response of its last request
      after |-> "" ]          \* history: what preceded the request on its Session

NewSHist ==
    [ last  |-> "",           \* "fault": the last one-shot request got an exception error
                              \* "streaming" / "stopped" / "drained": a stream was started /
                              \* stopped by stream-stop while active / then polled to done
      hstop |-> FALSE,        \* a stream-stop was written since the last stream-start
      pdata |-> 0,            \* stream-data the polls delivered since the last stream-start
      plast |-> 0,            \* value of the last of them
      pdone |-> 0,            \* stream-done the polls delivered since then
      pbad  |-> FALSE,        \* a stream-data came out of order or after a stream-done
      pfin  |-> FALSE,        \* the poll that delivered a stream-done reported done
      starts |-> 0 ]          \* stream-start requests written to this Session, up to 2

Min(a, b) == IF a < b THEN a ELSE b

\* The process ends: its threads are gone and its state is lost; what was
\* written to its stdin is never read.
Dead == [NewWorker EXCEPT !.mpc = "exited"]

Circ == 0 - 2     \* a value json.dumps cannot encode

AtEOF(g) == stdin[g] = <<>> /\ inClosed[g]

\* send(): one line on the real stdout.  The pipe holds MaxOut lines; a
\* writer blocks while it is full.
HSend(h, cur, m) ==
    [h EXCEPT
       !.replies = IF m.type \in Terminal /\ m.id # 0 /\ m.id = cur.id
                   THEN Min(@ + 1, 2) ELSE @,
       !.sdone   = IF m.type = "stream-done" /\ h.entered /\ m.id = cur.id
                   THEN Min(@ + 1, 2) ELSE @,
       !.late    = @ \/ ( /\ h.sdone > 0
                          /\ h.entered
                          /\ m.type \in {"stream-data", "error"}
                          /\ m.id = cur.id ) ]

Emit(g, m, h) ==
    /\ Len(stdout[g]) < MaxOut
    /\ stdout' = [stdout EXCEPT ![g] = Append(@, m)]
    /\ hw' = [hw EXCEPT ![g] = HSend(h, wk[g].cur, m)]

send(g, m) == Emit(g, m, hw[g])

\* ---------------------------------------------------------------- main()
\* The leading part of main()'s loop: take the first entry of
\* _leftover_queue that is not None, dropping the None entries before it.
RECURSIVE DropNone(_)
DropNone(q) == IF q # <<>> /\ Head(q) = NoneMsg THEN DropNone(Tail(q)) ELSE q

TakeUp(g, m, left) ==
    /\ wk' = [wk EXCEPT ![g] = [@ EXCEPT !.cur = m, !.mpc = "dispatch", !.leftover = left]]
    /\ hw' = [hw EXCEPT ![g] = [@ EXCEPT !.replies = 0, !.entered = FALSE,
                                       !.outs = <<>>, !.errs = <<>>]]

main_leftover(g) ==
    /\ Running(g) /\ wk[g].mpc = "top"
    /\ LET q == DropNone(wk[g].leftover) IN
         IF q # <<>>
         THEN TakeUp(g, Head(q), Tail(q))
         ELSE /\ wk' = [wk EXCEPT ![g] = [@ EXCEPT !.mpc = "read", !.leftover = <<>>]]
              /\ UNCHANGED hw
    /\ UNCHANGED <<stdin, inClosed, stdout, envLeft, ctl>>

\* read_message() in a main() that takes None for "nothing yet" and goes
\* round its loop again.
read_message_eof_continue(g) ==
    /\ Running(g) /\ wk[g].mpc = "read"
    /\ IF stdin[g] = <<>>
       THEN /\ inClosed[g]
            /\ wk' = [wk EXCEPT ![g] = [@ EXCEPT !.mpc = "top"]]
            /\ UNCHANGED <<stdin, hw>>
       ELSE LET m == Head(stdin[g]) IN
            CASE m = Blank -> /\ stdin' = [stdin EXCEPT ![g] = Tail(@)]
                              /\ UNCHANGED <<wk, hw>>
              [] m = Junk  -> /\ stdin' = [stdin EXCEPT ![g] = <<>>]
                              /\ wk' = [wk EXCEPT ![g] = Dead]
                              /\ UNCHANGED hw
              [] OTHER     -> /\ stdin' = [stdin EXCEPT ![g] = Tail(@)]
                              /\ TakeUp(g, m, wk[g].leftover)
    /\ UNCHANGED <<inClosed, stdout, envLeft, ctl>>

\* read_message() as main() calls it: EOF ends the loop and with it the
\* process; a blank line is skipped; json.loads of any other line is not
\* guarded, so a line that is not JSON ends the process with a traceback.
read_message(g) ==
    /\ Running(g) /\ wk[g].mpc = "read"
    /\ IF stdin[g] = <<>>
       THEN /\ inClosed[g]
            /\ wk' = [wk EXCEPT ![g] = Dead]
            /\ UNCHANGED <<stdin, hw>>
       ELSE LET m == Head(stdin[g]) IN
            CASE m = Blank -> /\ stdin' = [stdin EXCEPT ![g] = Tail(@)]
                              /\ UNCHANGED <<wk, hw>>
              [] m = Junk  -> /\ stdin' = [stdin EXCEPT ![g] = <<>>]
                              /\ wk' = [wk EXCEPT ![g] = Dead]
                              /\ UNCHANGED hw
              [] OTHER     -> /\ stdin' = [stdin EXCEPT ![g] = Tail(@)]
                              /\ TakeUp(g, m, wk[g].leftover)
    /\ UNCHANGED <<inClosed, stdout, envLeft, ctl>>

\* An except clause that sends nothing.
main_except_swallow(g) ==
    UNCHANGED <<stdout, hw>>

\* The except clause of main(): an error that carries the id of the message.
main_except(g) ==
    send(g, Msg("error", wk[g].cur.id, "", 0))

ToTop(g) == wk' = [wk EXCEPT ![g] = [@ EXCEPT !.mpc = "top"]]

\* main(): stream-stop, stream-exec and noop are ignored; an unknown type and
\* a request without id raise ValueError into the except clause.
main_other(g) ==
    /\ Running(g) /\ wk[g].mpc = "dispatch"
    /\ \/ /\ wk[g].cur.type \in {"stream-stop", "stream-exec", "noop"}
          /\ UNCHANGED <<stdout, hw>>
       \/ /\ \/ wk[g].cur.type \notin {"init", "exec", "eval", "stream-start",
                                        "stream-stop", "stream-exec", "noop"}
             \/ wk[g].cur.type \in {"exec", "eval", "stream-start"} /\ wk[g].cur.id = 0
          /\ main_except(g)
    /\ ToTop(g)
    /\ UNCHANGED <<stdin, inClosed, envLeft, ctl>>

\* ------------------------------------------------------------ initialize()
\* initialize() without its early return for an initialized worker.
initialize_afresh(g) ==
    /\ Running(g) /\ wk[g].mpc = "dispatch" /\ wk[g].cur.type = "init"
    /\ send(g, Msg("progress", 0, "", 0))
    /\ wk' = [wk EXCEPT ![g] = [@ EXCEPT !.ns = EmptyNs, !.mpc = "init_pkg"]]
    /\ UNCHANGED <<stdin, inClosed, envLeft, ctl>>

initialize(g) ==
    /\ Running(g) /\ wk[g].mpc = "dispatch" /\ wk[g].cur.type = "init"
    /\ IF wk[g].init
       THEN /\ send(g, Msg("ready", 0, "", 0))
            /\ ToTop(g)
       ELSE /\ send(g, Msg("progress", 0, "", 0))
            /\ wk' = [wk EXCEPT ![g] = [@ EXCEPT !.ns = EmptyNs, !.mpc = "init_pkg"]]
    /\ UNCHANGED <<stdin, inClosed, envLeft, ctl>>

\* A package loop that treats a required package like an optional one.
initialize_packages_lenient(g) ==
    /\ Running(g) /\ wk[g].mpc = "init_pkg"
    /\ IF wk[g].cur.code \in {"req_fail", "opt_fail"}
       THEN /\ send(g, Msg("stderr", 0, "", 0))
            /\ wk' = [wk EXCEPT ![g] = [@ EXCEPT !.mpc = "init_fin"]]
       ELSE /\ send(g, Msg("ready", 0, "", 0))
            /\ wk' = [wk EXCEPT ![g] = [@ EXCEPT !.init = TRUE, !.mpc = "top"]]
    /\ UNCHANGED <<stdin, inClosed, envLeft, ctl>>

\* The package loop and the end of initialize(): a required package that
\* fails raises into main()'s except clause, an optional one is reported on
\* stderr, and only a completed initialization sets _initialized.
initialize_packages(g) ==
    /\ Running(g) /\ wk[g].mpc = "init_pkg"
    /\ CASE wk[g].cur.code = "req_fail" -> main_except(g) /\ ToTop(g)
         [] wk[g].cur.code = "opt_fail" ->
              /\ send(g, Msg("stderr", 0, "", 0))
              /\ wk' = [wk EXCEPT ![g] = [@ EXCEPT !.mpc = "init_fin"]]
         [] OTHER ->
              /\ send(g, Msg("ready", 0, "", 0))
              /\ wk' = [wk EXCEPT ![g] = [@ EXCEPT !.init = TRUE, !.mpc = "top"]]
    /\ UNCHANGED <<stdin, inClosed, envLeft, ctl>>

initialize_ready(g) ==
    /\ Running(g) /\ wk[g].mpc = "init_fin"
    /\ send(g, Msg("ready", 0, "", 0))
    /\ wk' = [wk EXCEPT ![g] = [@ EXCEPT !.init = TRUE, !.mpc = "top"]]
    /\ UNCHANGED <<stdin, inClosed, envLeft, ctl>>

\* ------------------------------------------------------ _run_with_timeout()
\* What the code of the current message does when its thread runs it:
\* the namespace after it and whether it returned or raised.  Code that
\* hangs never gets here; _run_with_timeout gives up on it instead.
Effect(type, code, ns) ==
    CASE type = "exec" /\ code = "set0" -> [ns |-> [ns EXCEPT !.step = 0], r |-> "ok"]
      [] type = "exec" /\ code = "set1" -> [ns |-> [ns EXCEPT !.step = 1], r |-> "ok"]
      [] type = "eval" /\ code = "get" /\ ns.step # Unbound ->
             [ns |-> [ns EXCEPT !.res = ns.step, !.resDone = FALSE], r |-> "ok"]
      [] type = "eval" /\ code = "circ" ->
             [ns |-> [ns EXCEPT !.res = Circ, !.resDone = FALSE], r |-> "ok"]
      [] type = "stream-start" /\ code = "gen" /\ ns.step # Unbound ->
             LET n == IF ns.step < DoneAt THEN ns.step + 1 ELSE ns.step IN
             [ns |-> [step |-> n, res |-> n, resDone |-> (n >= DoneAt)], r |-> "ok"]
      [] type = "stream-start" /\ code \in {"inf", "slow"} ->
             [ns |-> [ns EXCEPT !.res = 1, !.resDone = FALSE], r |-> "ok"]
      [] type = "stream-start" /\ code = "empty" ->
             [ns |-> [ns EXCEPT !.res = 0, !.resDone = FALSE], r |-> "ok"]
      [] type = "stream-start" /\ code = "fin" ->
             [ns |-> [ns EXCEPT !.res = 1, !.resDone = TRUE], r |-> "ok"]
      [] OTHER -> [ns |-> ns, r |-> "raised"]

Wrote(h, old, new) ==
    IF old.step # new.step THEN [h EXCEPT !.nswrites = 1 - @] ELSE h

\* The text threading.excepthook writes to sys.stderr when a thread ends
\* with an exception target() does not catch: the KeyboardInterrupt that
\* _raise_in_thread set in it.
ThreadTraceback == 9

\* _ProtocolWriter.write() called by the code of cur: one stdout or stderr
\* message per write.
Write(g, type, text) ==
    Emit(g, Msg(type, 0, "", text),
         IF type = "stdout" THEN [hw[g] EXCEPT !.outs = Append(@, text)]
                            ELSE [hw[g] EXCEPT !.errs = Append(@, text)])

\* The daemon thread of _run_with_timeout runs func().  The code "print"
\* is  print(1); print(2); sys.stderr.write(3).
target(g) ==
    /\ Running(g) /\ wk[g].thr \in {"running", "printed1", "printed2"}
    /\ LET c == wk[g].cur.code IN
       CASE c = "hang"   -> FALSE
         [] c = "print"  ->
              /\ CASE wk[g].thr = "running"  -> Write(g, "stdout", 1)
                   [] wk[g].thr = "printed1" -> Write(g, "stdout", 2)
                   [] OTHER                  -> Write(g, "stderr", 3)
              /\ wk' = [wk EXCEPT ![g].thr =
                          CASE @ = "running"  -> "printed1"
                            [] @ = "printed1" -> "printed2"
                            [] OTHER          -> "ok"]
              /\ UNCHANGED stdin
         [] c = "freeze" -> /\ wk' = [wk EXCEPT ![g] = [@ EXCEPT !.frozen = TRUE]]
                            /\ UNCHANGED <<hw, stdin, stdout>>
         [] c = "crash"  -> /\ wk' = [wk EXCEPT ![g] = Dead]
                            /\ stdin' = [stdin EXCEPT ![g] = <<>>]
                            /\ UNCHANGED <<hw, stdout>>
         [] OTHER ->
              LET e == Effect(wk[g].cur.type, c, wk[g].ns) IN
              /\ wk' = [wk EXCEPT ![g] = [@ EXCEPT !.ns = e.ns, !.thr = e.r]]
              /\ hw' = [hw EXCEPT ![g] = Wrote(@, wk[g].ns, e.ns)]
              /\ UNCHANGED <<stdin, stdout>>
    /\ UNCHANGED <<inClosed, envLeft, ctl>>

\* t.join(timeout) returns with the thread still alive.
TimedOut(g) == wk[g].thr = "running" /\ wk[g].cur.code = "hang"
Joined(g)   == wk[g].thr \in {"ok", "raised"} \/ TimedOut(g)

\* A thread that outlived its timeout ends at last.  Code that catches the
\* pending KeyboardInterrupt ends in silence; otherwise the exception leaves
\* target(), whose except clause is for Exception, and the traceback goes
\* to sys.stderr, the _ProtocolWriter, whatever main() is handling by then.
zombie_exit(g) ==
    /\ Running(g) /\ wk[g].zombie
    /\ wk' = [wk EXCEPT ![g] = [@ EXCEPT !.zombie = FALSE]]
    /\ \/ UNCHANGED <<stdout, hw>>
       \/ Emit(g, Msg("stderr", 0, "", ThreadTraceback), hw[g])
    /\ UNCHANGED <<stdin, inClosed, envLeft, ctl>>

\* -------------------------------------------------- exec_code() / eval_expr()
StartThread(g, pc) ==
    /\ wk' = [wk EXCEPT ![g] = [@ EXCEPT !.thr = "running", !.mpc = pc]]
    /\ UNCHANGED <<stdout, hw>>

\* The error reply without the id of the request.
ErrorOf_no_id(g) ==
    IF TimedOut(g) THEN Msg("error", 0, "exec-timeout", 0)
                   ELSE Msg("error", 0, "exception", 1)

ErrorOf(g) ==
    IF TimedOut(g) THEN Msg("error", wk[g].cur.id, "exec-timeout", 0)
                   ELSE Msg("error", wk[g].cur.id, "exception", 1)

\* exec_code() without the _initialized test.
exec_code_unguarded(g) ==
    /\ Running(g) /\ wk[g].mpc = "dispatch"
    /\ wk[g].cur.type = "exec" /\ wk[g].cur.id # 0
    /\ StartThread(g, "exec_join")
    /\ UNCHANGED <<stdin, inClosed, envLeft, ctl>>

exec_code(g) ==
    /\ Running(g) /\ wk[g].mpc = "dispatch"
    /\ wk[g].cur.type = "exec" /\ wk[g].cur.id # 0
    /\ IF ~wk[g].init
       THEN send(g, Msg("error", wk[g].cur.id, "not_initialized", 0)) /\ ToTop(g)
       ELSE StartThread(g, "exec_join")
    /\ UNCHANGED <<stdin, inClosed, envLeft, ctl>>

exec_code_reply(g) ==
    /\ Running(g) /\ wk[g].mpc = "exec_join" /\ Joined(g)
    /\ send(g, IF wk[g].thr = "ok" THEN Msg("ok", wk[g].cur.id, "", 0) ELSE ErrorOf(g))
    /\ \E z \in (IF TimedOut(g) THEN BOOLEAN ELSE {FALSE}) :
         wk' = [wk EXCEPT ![g] = [@ EXCEPT !.thr = "none", !.mpc = "top",
                                            !.zombie = @ \/ z]]
    /\ UNCHANGED <<stdin, inClosed, envLeft, ctl>>

eval_expr(g) ==
    /\ Running(g) /\ wk[g].mpc = "dispatch"
    /\ wk[g].cur.type = "eval" /\ wk[g].cur.id # 0
    /\ IF ~wk[g].init
       THEN send(g, Msg("error", wk[g].cur.id, "not_initialized", 0)) /\ ToTop(g)
       ELSE StartThread(g, "eval_join")
    /\ UNCHANGED <<stdin, inClosed, envLeft, ctl>>

\* json.dumps of the result runs outside the two except clauses of
\* eval_expr: its failure reaches the except clause of main().
eval_expr_reply(g) ==
    /\ Running(g) /\ wk[g].mpc = "eval_join" /\ Joined(g)
    /\ IF wk[g].thr = "ok"
       THEN IF wk[g].ns.res = Circ
            THEN main_except(g)
            ELSE send(g, Msg("value", wk[g].cur.id, "", wk[g].ns.res))
       ELSE send(g, ErrorOf(g))
    /\ \E z \in (IF TimedOut(g) THEN BOOLEAN ELSE {FALSE}) :
         wk' = [wk EXCEPT ![g] = [@ EXCEPT !.thr = "none", !.mpc = "top",
                                            !.zombie = @ \/ z]]
    /\ UNCHANGED <<stdin, inClosed, envLeft, ctl>>

\* ------------------------------------------------------ run_streaming_loop()
\* Entry: the guard, _streaming_active, the stale code dropped, the reader
\* thread started.
run_streaming_loop(g) ==
    /\ Running(g) /\ wk[g].mpc = "dispatch"
    /\ wk[g].cur.type = "stream-start" /\ wk[g].cur.id # 0
    /\ IF ~wk[g].init
       THEN send(g, Msg("error", wk[g].cur.id, "not_initialized", 0)) /\ ToTop(g)
       ELSE /\ wk[g].stale < MaxStale
            /\ wk' = [wk EXCEPT ![g] = [@ EXCEPT !.active = TRUE, !.codeq = <<>>,
                                               !.rdr = "reading", !.mpc = "s_while"]]
            /\ hw' = [hw EXCEPT ![g] = [@ EXCEPT !.entered = TRUE, !.sdone = 0,
                                               !.late = FALSE, !.notdone = 0,
                                               !.ended = ""]]
            /\ UNCHANGED stdout
    /\ UNCHANGED <<stdin, inClosed, envLeft, ctl>>

\* A loop test that does not look at _streaming_active.
stream_while_ignore_stop(g) ==
    /\ Running(g) /\ wk[g].mpc = "s_while"
    /\ wk' = [wk EXCEPT ![g] = [@ EXCEPT !.mpc = "s_codeq"]]
    /\ UNCHANGED <<stdin, inClosed, stdout, hw, envLeft, ctl>>

\* while _streaming_active:
stream_while(g) ==
    /\ Running(g) /\ wk[g].mpc = "s_while"
    /\ wk' = [wk EXCEPT ![g] = [@ EXCEPT !.mpc = IF wk[g].active THEN "s_codeq"
                                                                  ELSE "s_finally"]]
    /\ hw' = [hw EXCEPT ![g].ended = IF wk[g].active THEN @ ELSE "stop"]
    /\ UNCHANGED <<stdin, inClosed, stdout, envLeft, ctl>>

\* Queued code whose exception ends the loop like a failing step.
stream_codeq_fatal(g) ==
    /\ Running(g) /\ wk[g].mpc = "s_codeq"
    /\ IF wk[g].codeq = <<>>
       THEN StartThread(g, "s_join")
       ELSE LET c == Head(wk[g].codeq)
                n == IF c = "set1" THEN [wk[g].ns EXCEPT !.step = 1] ELSE wk[g].ns
            IN  IF c = "raise"
                THEN /\ wk' = [wk EXCEPT ![g] = [@ EXCEPT !.codeq = Tail(@),
                                                          !.mpc = "s_finally"]]
                     /\ send(g, Msg("error", wk[g].cur.id, "exception", 1))
                ELSE /\ wk' = [wk EXCEPT ![g] = [@ EXCEPT !.codeq = Tail(@), !.ns = n]]
                     /\ hw' = [hw EXCEPT ![g] = Wrote(@, wk[g].ns, n)]
                     /\ UNCHANGED stdout
    /\ UNCHANGED <<stdin, inClosed, envLeft, ctl>>

\* The queued stream-exec code, run by the main thread itself; when the
\* queue is empty the step is started under _run_with_timeout.
stream_codeq(g) ==
    /\ Running(g) /\ wk[g].mpc = "s_codeq"
    /\ IF wk[g].codeq = <<>>
       THEN StartThread(g, "s_join")
       ELSE LET c == Head(wk[g].codeq)
                n == IF c = "set1" THEN [wk[g].ns EXCEPT !.step = 1] ELSE wk[g].ns
            IN  /\ wk' = [wk EXCEPT ![g] = [@ EXCEPT !.codeq = Tail(@), !.ns = n]]
                /\ IF c = "raise"
                   THEN send(g, Msg("stderr", 0, "", 0))
                   ELSE /\ hw' = [hw EXCEPT ![g] = Wrote(@, wk[g].ns, n)]
                        /\ UNCHANGED stdout
    /\ UNCHANGED <<stdin, inClosed, envLeft, ctl>>

\* The rest of one iteration, from the return of _run_with_timeout.
Truthy(v) == v # 0 /\ v # Unbound

\* The stopped branch sending whatever is not done.
stream_step_stop_all(g) ==
    /\ Running(g) /\ wk[g].mpc = "s_join" /\ Joined(g)
    /\ LET id    == wk[g].cur.id
           done  == wk[g].ns.resDone
           data  == Msg("stream-data", id, "", wk[g].ns.res)
           goto(pc, z) == wk' = [wk EXCEPT ![g] = [@ EXCEPT !.thr = "none", !.mpc = pc,
                                                             !.zombie = @ \/ z]]
           end(how) == [hw[g] EXCEPT !.ended = how]
           more     == [hw[g] EXCEPT !.notdone = Min(@ + 1, DoneAt + 1)]
       IN
       CASE TimedOut(g) ->
              /\ Emit(g, Msg("error", id, "step-timeout", 0), end("timeout"))
              /\ \E z \in BOOLEAN : goto("s_finally", z)
         [] wk[g].thr = "raised" ->
              /\ Emit(g, Msg("error", id, "exception", 1), end("fault"))
              /\ goto("s_finally", FALSE)
         [] OTHER ->
              IF ~wk[g].active
              THEN /\ IF ~done
                      THEN Emit(g, data, [more EXCEPT !.ended = "stop"])
                      ELSE /\ hw' = [hw EXCEPT ![g] = end("stop")]
                           /\ UNCHANGED stdout
                   /\ goto("s_finally", FALSE)
              ELSE IF done
                   THEN /\ hw' = [hw EXCEPT ![g] = end("done")]
                        /\ UNCHANGED stdout
                        /\ goto("s_finally", FALSE)
                   ELSE /\ Emit(g, data, more)
                        /\ goto("s_while", FALSE)
    /\ UNCHANGED <<stdin, inClosed, envLeft, ctl>>

stream_step(g) ==
    /\ Running(g) /\ wk[g].mpc = "s_join" /\ Joined(g)
    /\ LET id    == wk[g].cur.id
           done  == wk[g].ns.resDone
           data  == Msg("stream-data", id, "", wk[g].ns.res)
           goto(pc, z) == wk' = [wk EXCEPT ![g] = [@ EXCEPT !.thr = "none", !.mpc = pc,
                                                             !.zombie = @ \/ z]]
           end(how) == [hw[g] EXCEPT !.ended = how]
           more     == [hw[g] EXCEPT !.notdone = Min(@ + 1, DoneAt + 1)]
       IN
       CASE TimedOut(g) ->
              /\ Emit(g, Msg("error", id, "step-timeout", 0), end("timeout"))
              /\ \E z \in BOOLEAN : goto("s_finally", z)
         [] wk[g].thr = "raised" ->
              /\ Emit(g, Msg("error", id, "exception", 1), end("fault"))
              /\ goto("s_finally", FALSE)
         [] OTHER ->
              IF ~wk[g].active
              THEN /\ IF ~done /\ Truthy(wk[g].ns.res)
                      THEN Emit(g, data, [more EXCEPT !.ended = "stop"])
                      ELSE /\ hw' = [hw EXCEPT ![g] = IF done THEN end("stop")
                                                      ELSE [more EXCEPT !.ended = "stop"]]
                           /\ UNCHANGED stdout
                   /\ goto("s_finally", FALSE)
              ELSE IF done
                   THEN /\ hw' = [hw EXCEPT ![g] = end("done")]
                        /\ UNCHANGED stdout
                        /\ goto("s_finally", FALSE)
                   ELSE /\ Emit(g, data, more)
                        /\ goto("s_while", FALSE)
    /\ UNCHANGED <<stdin, inClosed, envLeft, ctl>>

\* The finally clause without its send.
stream_finally_no_done(g) ==
    /\ Running(g) /\ wk[g].mpc = "s_finally"
    /\ wk' = [wk EXCEPT ![g] = [@ EXCEPT !.active = FALSE, !.mpc = "top",
                                       !.rdr = "none",
                                       !.stale = IF wk[g].rdr = "reading" THEN @ + 1 ELSE @]]
    /\ UNCHANGED <<stdin, inClosed, stdout, hw, envLeft, ctl>>

\* finally: the flag, stop_event, stream-done.  The reader thread stays
\* blocked in readline until one more line arrives.
stream_finally(g) ==
    /\ Running(g) /\ wk[g].mpc = "s_finally"
    /\ send(g, Msg("stream-done", wk[g].cur.id, "", 0))
    /\ wk' = [wk EXCEPT ![g] = [@ EXCEPT !.active = FALSE, !.mpc = "top",
                                       !.rdr = "none",
                                       !.stale = IF wk[g].rdr = "reading" THEN @ + 1 ELSE @]]
    /\ UNCHANGED <<stdin, inClosed, envLeft, ctl>>

\* ------------------------------------------------ _streaming_reader_thread()
\* One line read by the reader of the running stream (stop_event not set).
streaming_reader_thread(g) ==
    /\ Running(g) /\ wk[g].rdr = "reading"
    /\ IF stdin[g] = <<>>
       THEN /\ inClosed[g]
            /\ Len(wk[g].leftover) < MaxLeft
            /\ wk' = [wk EXCEPT ![g] = [@ EXCEPT !.active = FALSE, !.rdr = "none",
                                               !.leftover = Append(@, NoneMsg)]]
            /\ UNCHANGED <<stdin, stdout, hw>>
       ELSE LET m == Head(stdin[g]) IN
            /\ stdin' = [stdin EXCEPT ![g] = Tail(@)]
            /\ CASE m = Blank -> UNCHANGED <<wk, stdout, hw>>
                 [] m = Junk  -> send(g, Msg("error", 0, "invalid_json", 0)) /\ UNCHANGED wk
                 [] m.type = "stream-stop" ->
                      /\ wk' = [wk EXCEPT ![g] = [@ EXCEPT !.active = FALSE]]
                      /\ UNCHANGED <<stdout, hw>>
                 [] m.type = "stream-exec" ->
                      /\ IF m.code # "" /\ wk[g].active
                         THEN /\ Len(wk[g].codeq) < MaxCodeQ
                              /\ wk' = [wk EXCEPT ![g] = [@ EXCEPT !.codeq = Append(@, m.code)]]
                         ELSE UNCHANGED wk
                      /\ UNCHANGED <<stdout, hw>>
                 [] OTHER ->
                      /\ Len(wk[g].leftover) < MaxLeft
                      /\ wk' = [wk EXCEPT ![g] = [@ EXCEPT !.leftover = Append(@, m)]]
                      /\ UNCHANGED <<stdout, hw>>
    /\ UNCHANGED <<inClosed, envLeft, ctl>>

\* One line read by a reader whose stream has ended (stop_event is set):
\* whatever the line is, it goes to _leftover_queue and the thread ends.
stale_reader_thread(g) ==
    /\ Running(g) /\ wk[g].stale > 0
    /\ IF stdin[g] = <<>>
       THEN /\ inClosed[g]
            /\ Len(wk[g].leftover) < MaxLeft
            /\ wk' = [wk EXCEPT ![g] = [@ EXCEPT !.active = FALSE, !.stale = @ - 1,
                                               !.leftover = Append(@, NoneMsg)]]
            /\ UNCHANGED <<stdin, stdout, hw>>
       ELSE LET m == Head(stdin[g]) IN
            /\ stdin' = [stdin EXCEPT ![g] = Tail(@)]
            /\ CASE m = Blank -> UNCHANGED <<wk, stdout, hw>>
                 [] m = Junk  -> send(g, Msg("error", 0, "invalid_json", 0)) /\ UNCHANGED wk
                 [] OTHER ->
                      /\ Len(wk[g].leftover) < MaxLeft
                      /\ wk' = [wk EXCEPT ![g] = [@ EXCEPT !.leftover = Append(@, m),
                                                         !.stale = @ - 1]]
                      /\ UNCHANGED <<stdout, hw>>
    /\ UNCHANGED <<inClosed, envLeft, ctl>>

\* The reader thread of the running stream seen at a finer grain: it reads
\* a line, parses it and finds stop_event clear, ...
reader_reads(g) ==
    /\ Running(g) /\ wk[g].rdr = "reading" /\ wk[g].held = NoneMsg
    /\ IF stdin[g] = <<>> \/ Head(stdin[g]) \in {Blank, Junk}
       THEN streaming_reader_thread(g)
       ELSE /\ wk' = [wk EXCEPT ![g] = [@ EXCEPT !.held = Head(stdin[g]),
                                               !.rdr = "holding"]]
            /\ stdin' = [stdin EXCEPT ![g] = Tail(@)]
            /\ UNCHANGED <<inClosed, stdout, hw, envLeft, ctl>>

\* ... and then acts on the message by its type, reading _streaming_active
\* as it is by then.  When the loop has ended in between, the thread is a
\* reader of an ended stream from here on.
reader_handles(g) ==
    /\ Running(g) /\ wk[g].held # NoneMsg
    /\ LET m   == wk[g].held
           own == wk[g].rdr = "holding"
           w   == [wk[g] EXCEPT !.held = NoneMsg,
                                !.rdr = IF own THEN "reading" ELSE @,
                                !.stale = IF own THEN @ ELSE @ + 1]
       IN
       /\ own \/ wk[g].stale < MaxStale
       /\ CASE m.type = "stream-stop" ->
                 wk' = [wk EXCEPT ![g] = [w EXCEPT !.active = FALSE]]
            [] m.type = "stream-exec" ->
                 IF m.code # "" /\ wk[g].active
                 THEN /\ Len(wk[g].codeq) < MaxCodeQ
                      /\ wk' = [wk EXCEPT ![g] = [w EXCEPT !.codeq = Append(@, m.code)]]
                 ELSE wk' = [wk EXCEPT ![g] = w]
            [] OTHER ->
                 /\ Len(wk[g].leftover) < MaxLeft
                 /\ wk' = [wk EXCEPT ![g] = [w EXCEPT !.leftover = Append(@, m)]]
    /\ UNCHANGED <<stdin, inClosed, stdout, hw, envLeft, ctl>>

\* Every step of worker g: the one-shot part and the streaming part.
WorkerOneShot(g) ==
    \/ main_leftover(g) \/ read_message(g)
    \/ initialize(g) \/ initialize_packages(g)
    \/ target(g)
    \/ exec_code(g) \/ exec_code_reply(g)
    \/ eval_expr(g) \/ eval_expr_reply(g)

WorkerStream(g) ==
    \/ run_streaming_loop(g) \/ stream_while(g) \/ stream_codeq(g)
    \/ stream_step(g) \/ stream_finally(g)
    \/ streaming_reader_thread(g) \/ stale_reader_thread(g)

Worker(g) ==
    \/ WorkerOneShot(g) \/ initialize_ready(g) \/ zombie_exit(g)
    \/ main_other(g) \/ WorkerStream(g)

\* ------------------------------------------ a bare worker and its environment
\* The worker as test_worker.py drives it: a process whose stdin receives
\* arbitrary lines and whose stdout is read line by line.
EnvMsgs ==
    {Blank, Junk, Msg("noop", 0, "", 0), Msg("bogus", 1, "", 0),
     Msg("stream-stop", 0, "", 0)}
    \cup {Msg("init", 0, p, 0) : p \in Packages}
    \cup {Msg("exec", 1, c, 0) : c \in {"set0", "set1", "raise", "hang"}}
    \cup {Msg("exec", 0, "set1", 0)}
    \cup {Msg("eval", 1, c, 0) : c \in {"get", "circ", "hang"}}
    \cup {Msg("stream-start", 2, c, 0) : c \in {"gen", "inf", "hang"}}
    \cup {Msg("stream-exec", 0, c, 0) : c \in StreamCodes \cup {""}}

env_write(g) ==
    /\ wk[g].alive /\ ~inClosed[g] /\ envLeft > 0 /\ Len(stdin[g]) < MaxIn
    /\ \E m \in EnvMsgs : stdin' = [stdin EXCEPT ![g] = Append(@, m)]
    /\ envLeft' = envLeft - 1
    /\ UNCHANGED <<wk, inClosed, stdout, hw, ctl>>

env_close(g) ==
    /\ wk[g].alive /\ ~inClosed[g]
    /\ inClosed' = [inClosed EXCEPT ![g] = TRUE]
    /\ UNCHANGED <<wk, stdin, stdout, hw, envLeft, ctl>>

env_read(g) ==
    /\ stdout[g] # <<>>
    /\ stdout' = [stdout EXCEPT ![g] = Tail(@)]
    /\ UNCHANGED <<wk, stdin, inClosed, hw, envLeft, ctl>>

WorkerInit ==
    /\ wk = [g \in Gens |-> IF g = 1 THEN [NewWorker EXCEPT !.alive = TRUE] ELSE NewWorker]
    /\ stdin = [g \in Gens |-> <<>>]
    /\ inClosed = [g \in Gens |-> FALSE]
    /\ stdout = [g \in Gens |-> <<>>]
    /\ hw = [g \in Gens |-> NewHist]
    /\ envLeft = MaxEnv
    /\ registry = 0 /\ ngen = 0
    /\ se = [g \in Gens |-> NewSession]
    /\ cl = [c \in Clients |-> NewClient]
    /\ reqLeft = 0
    /\ stale = FALSE
    /\ menu = {}
    /\ hs = [g \in Gens |-> NewSHist]

WorkerNext ==
    \/ Worker(1)
    \/ env_write(1) \/ env_close(1) \/ env_read(1)

WorkerSpec == WorkerInit /\ [][WorkerNext]_vars

\* A bare worker whose test notes, on each line it writes, whether the
\* worker was inside the while loop of run_streaming_loop() at that moment
\* (val = 1); the worker does not look at that field of a request.
InLoop(g) == wk[g].mpc \in {"s_while", "s_codeq", "s_join"}

LeftoverMsgs ==
    {Msg("init", 0, "none", 0), Msg("stream-stop", 0, "", 0), Msg("exec", 1, "set1", 0)}
    \cup {Msg("stream-start", 2, c, 0) : c \in {"gen", "inf"}}

stream_test_send(g) ==
    /\ wk[g].alive /\ ~inClosed[g] /\ envLeft > 0 /\ Len(stdin[g]) < MaxIn
    /\ \E m \in LeftoverMsgs :
         stdin' = [stdin EXCEPT ![g] = Append(@, [m EXCEPT !.val = IF InLoop(g) THEN 1 ELSE 0])]
    /\ envLeft' = envLeft - 1
    /\ UNCHANGED <<wk, inClosed, stdout, hw, ctl>>

LeftoverNext ==
    \/ main_leftover(1) \/ read_message(1) \/ main_other(1)
    \/ initialize(1) \/ initialize_packages(1)
    \/ exec_code(1) \/ target(1) \/ exec_code_reply(1)
    \/ WorkerStream(1)
    \/ stream_test_send(1) \/ env_read(1)

LeftoverSpec == WorkerInit /\ [][LeftoverNext]_vars

\* A bare worker whose test stops a stream while a step is executing.
StopMsgs ==
    {Msg("init", 0, "none", 0), Msg("stream-stop", 0, "", 0)}
    \cup {Msg("stream-start", 2, c, 0) : c \in {"inf", "empty", "fin"}}

stop_test_send(g) ==
    /\ wk[g].alive /\ ~inClosed[g] /\ envLeft > 0 /\ Len(stdin[g]) < MaxIn
    /\ \E m \in StopMsgs : stdin' = [stdin EXCEPT ![g] = Append(@, m)]
    /\ envLeft' = envLeft - 1
    /\ UNCHANGED <<wk, inClosed, stdout, hw, ctl>>

StopNext ==
    \/ main_leftover(1) \/ read_message(1) \/ main_other(1)
    \/ initialize(1) \/ initialize_packages(1)
    \/ target(1) \/ WorkerStream(1)
    \/ stop_test_send(1) \/ env_read(1)

StopSpec == WorkerInit /\ [][StopNext]_vars

\* A bare worker whose test sends code into a running stream.
QueueMsgs ==
    {Msg("init", 0, "none", 0), Msg("stream-start", 2, "inf", 0),
     Msg("stream-stop", 0, "", 0)}
    \cup {Msg("stream-exec", 0, c, 0) : c \in StreamCodes}

queue_test_send(g) ==
    /\ wk[g].alive /\ ~inClosed[g] /\ envLeft > 0 /\ Len(stdin[g]) < MaxIn
    /\ \E m \in QueueMsgs : stdin' = [stdin EXCEPT ![g] = Append(@, m)]
    /\ envLeft' = envLeft - 1
    /\ UNCHANGED <<wk, inClosed, stdout, hw, ctl>>

QueueInit ==
    /\ wk = [g \in Gens |-> IF g = 1 THEN [NewWorker EXCEPT !.alive = TRUE] ELSE NewWorker]
    /\ stdin = [g \in Gens |-> <<>>]
    /\ inClosed = [g \in Gens |-> FALSE]
    /\ stdout = [g \in Gens |-> <<>>]
    /\ hw = [g \in Gens |-> NewHist]
    /\ envLeft = MaxEnv + 1
    /\ registry = 0 /\ ngen = 0
    /\ se = [g \in Gens |-> NewSession]
    /\ cl = [c \in Clients |-> NewClient]
    /\ reqLeft = 0
    /\ stale = FALSE
    /\ menu = {}
    /\ hs = [g \in Gens |-> NewSHist]

QueueNext ==
    \/ main_leftover(1) \/ read_message(1) \/ main_other(1)
    \/ initialize(1) \/ initialize_packages(1)
    \/ target(1) \/ WorkerStream(1)
    \/ queue_test_send(1) \/ env_read(1)

QueueSpec == QueueInit /\ [][QueueNext]_vars

\* A bare worker whose test runs two streams, the first of which ends by
\* itself, and sends code only while the loop of the first is running and
\* before it has asked for the second: in the pipe the code is ahead of the
\* second stream-start.
race_test_send(g) ==
    /\ wk[g].alive /\ ~inClosed[g] /\ envLeft > 0 /\ Len(stdin[g]) < MaxIn
    /\ \E m \in {Msg("init", 0, "none", 0), Msg("stream-start", 2, "fin", 0),
                 Msg("stream-start", 4, "inf", 0), Msg("stream-exec", 0, "set1", 0)} :
         /\ m.type = "stream-exec" =>
              /\ InLoop(g) /\ wk[g].cur.id = 2 /\ wk[g].held.id # 4
              /\ \A i \in 1..Len(stdin[g]) : stdin[g][i].id # 4
              /\ \A i \in 1..Len(wk[g].leftover) : wk[g].leftover[i].id # 4
         /\ m.id = 4 => \A i \in 1..Len(stdin[g]) : stdin[g][i].type # "stream-exec"
         /\ stdin' = [stdin EXCEPT ![g] = Append(@, m)]
    /\ envLeft' = envLeft - 1
    /\ UNCHANGED <<wk, inClosed, stdout, hw, ctl>>

RaceNext ==
    \/ main_leftover(1) \/ read_message(1) \/ main_other(1)
    \/ initialize(1) \/ initialize_packages(1)
    \/ target(1)
    \/ run_streaming_loop(1) \/ stream_while(1) \/ stream_codeq(1)
    \/ stream_step(1) \/ stream_finally(1)
    \/ reader_reads(1) \/ reader_handles(1) \/ stale_reader_thread(1)
    \/ race_test_send(1) \/ env_read(1)

RaceSpec == QueueInit /\ [][RaceNext]_vars

\* The bare worker with its threads scheduled: the main thread, the thread
\* of _run_with_timeout and the reader threads each get to run (a reader
\* waiting for room in the output pipe gets it in the end), and the test
\* keeps reading the worker's output.
MainThread(g) ==
    \/ main_leftover(g) \/ read_message(g) \/ main_other(g)
    \/ initialize(g) \/ initialize_packages(g) \/ initialize_ready(g)
    \/ exec_code(g) \/ exec_code_reply(g) \/ eval_expr(g) \/ eval_expr_reply(g)
    \/ run_streaming_loop(g) \/ stream_while(g) \/ stream_codeq(g)
    \/ stream_step(g) \/ stream_finally(g)

EofSpec ==
    /\ WorkerInit /\ [][WorkerNext]_vars
    /\ WF_vars(MainThread(1)) /\ WF_vars(target(1))
    /\ SF_vars(streaming_reader_thread(1)) /\ SF_vars(stale_reader_thread(1))
    /\ WF_vars(env_read(1))

\* _ProtocolWriter.write() step by step, under two threads that run user
\* code: the test of _in_write, and then send() and the reset in finally.
InUserCode(g, t) ==
    IF t = "target" THEN wk[g].thr = "running" ELSE wk[g].zombie

write(g, t) ==
    /\ Running(g) /\ InUserCode(g, t) /\ wk[g].wr[t] = NoWrite
    /\ envLeft > 0
    /\ \E type \in {"stdout", "stderr"} :
         /\ hw' = [hw EXCEPT ![g] = IF type = "stdout"
                                    THEN [@ EXCEPT !.outs = Append(@, envLeft)]
                                    ELSE [@ EXCEPT !.errs = Append(@, envLeft)]]
         /\ IF type \notin wk[g].inw
            THEN wk' = [wk EXCEPT ![g] = [@ EXCEPT !.inw = @ \cup {type},
                          !.wr = [@ EXCEPT ![t] = [type |-> type, text |-> envLeft]]]]
            ELSE UNCHANGED wk
    /\ envLeft' = envLeft - 1
    /\ UNCHANGED <<stdin, inClosed, stdout, ctl>>

write_send(g, t) ==
    /\ Running(g) /\ wk[g].wr[t] # NoWrite
    /\ send(g, Msg(wk[g].wr[t].type, 0, "", wk[g].wr[t].text))
    /\ wk' = [wk EXCEPT ![g] = [@ EXCEPT !.inw = @ \ {wk[g].wr[t].type},
                                       !.wr = [@ EXCEPT ![t] = NoWrite]]]
    /\ UNCHANGED <<stdin, inClosed, envLeft, ctl>>

\* An initialized worker whose main thread waits for the thread of an exec
\* while the thread of an earlier exec, which timed out, is still running.
WriteInit ==
    /\ wk = [g \in Gens |-> IF g = 1
                THEN [NewWorker EXCEPT !.alive = TRUE, !.init = TRUE, !.mpc = "exec_join",
                                       !.cur = Msg("exec", 1, "print", 0),
                                       !.thr = "running", !.zombie = TRUE]
                ELSE NewWorker]
    /\ stdin = [g \in Gens |-> <<>>]
    /\ inClosed = [g \in Gens |-> FALSE]
    /\ stdout = [g \in Gens |-> <<>>]
    /\ hw = [g \in Gens |-> NewHist]
    /\ envLeft = MaxEnv + 1
    /\ registry = 0 /\ ngen = 0
    /\ se = [g \in Gens |-> NewSession]
    /\ cl = [c \in Clients |-> NewClient]
    /\ reqLeft = 0
    /\ stale = FALSE
    /\ menu = {}
    /\ hs = [g \in Gens |-> NewSHist]

WriteNext ==
    \/ \E t \in Threads : write(1, t) \/ write_send(1, t)
    \/ env_read(1)

WriteSpec == WriteInit /\ [][WriteNext]_vars

\* ======================================================= worker properties
MainIdle(g) == wk[g].mpc \in {"top", "read"}

\* C1: every exec/eval with a non-empty id that main() took up has got
\* exactly one terminal reply (ok, value or error) with its id by the time
\* main() is back at the head of its loop, and never more than one.
C1_OneTerminalReply ==
    \A g \in Gens :
      (wk[g].cur.type \in {"exec", "eval"} /\ wk[g].cur.id # 0) =>
         /\ hw[g].replies <= 1
         /\ MainIdle(g) => hw[g].replies = 1

C1_Witness ==
    /\ MainIdle(1) /\ wk[1].cur.type = "eval" /\ wk[1].cur.code = "circ"
    /\ wk[1].init /\ hw[1].replies = 1

\* C2: while a worker process lives, the value bound to a user name changes
\* only in a step in which user code writes the namespace: no init, failed
\* request or stream start/stop changes it.
C2_NamespacePersists ==
    [][\A g \in Gens :
         (wk[g].alive /\ wk'[g].alive /\ wk'[g].ns.step # wk[g].ns.step)
            => hw'[g].nswrites # hw[g].nswrites]_vars

C2_Witness ==
    /\ MainIdle(1) /\ wk[1].cur.type = "init" /\ wk[1].init
    /\ wk[1].ns.step = 1

\* C4: a stream that entered its loop has emitted exactly one stream-done
\* with its id when main() is back at the head of its loop, and no
\* stream-data or error of the stream follows the stream-done.
C4_OneStreamDoneLast ==
    \A g \in Gens :
      /\ hw[g].sdone <= 1
      /\ ~hw[g].late
      /\ (MainIdle(g) /\ hw[g].entered) => hw[g].sdone = 1

C4_Witness ==
    /\ MainIdle(1) /\ hw[1].entered /\ wk[1].cur.code = "hang" /\ hw[1].sdone = 1

\* ================================================================ controller
\* ------------------------------------------------------- Session (app.py)
\* send_message(): last_active is refreshed before the write; the write
\* raises when the process is gone or kill() has closed its stdin.
CanWrite(g) == wk[g].alive /\ ~inClosed[g]
Room(g)     == CanWrite(g) => Len(stdin[g]) < MaxIn

send_message(g, m) ==
    IF CanWrite(g) THEN [stdin EXCEPT ![g] = Append(@, m)] ELSE stdin

Touch(S, g) == [S EXCEPT ![g].aged = FALSE]

\* The worker's stdout as a reader of the pipe sees it.
OutEOF(g) == ~wk[g].alive /\ stdout[g] = <<>>

\* What makes a bounded wait of the controller expire: a worker that will
\* write nothing more unless it is written to, or that is frozen, or whose
\* current step outlasts the wait.
Quiet(g)    == Running(g) /\ wk[g].mpc = "read" /\ stdin[g] = <<>> /\ ~inClosed[g]
Silent(g)   == wk[g].alive /\ stdout[g] = <<>> /\ (wk[g].frozen \/ Quiet(g))
SlowCode(g) == Running(g) /\ wk[g].thr = "running" /\ wk[g].cur.code \in {"slow", "hang"}
StreamRunsOn(g) ==
    /\ Running(g) /\ wk[g].active /\ wk[g].cur.code \in {"inf", "slow"}
    /\ \A i \in 1..Len(stdin[g]) : stdin[g][i].type # "stream-stop"
JoinExpires(g) == Silent(g) \/ (SlowCode(g) /\ stdout[g] = <<>>) \/ StreamRunsOn(g)

\* kill(): the flag, stdin closed, the process killed and waited for.
KillSe(S, g) == IF g = 0 THEN S ELSE [S EXCEPT ![g].streaming = FALSE]
KillWk(W, g) == IF g = 0 THEN W ELSE [W EXCEPT ![g] = Dead]
KillIn(I, g) == IF g = 0 THEN I ELSE [I EXCEPT ![g] = <<>>]
KillCl(C, g) == IF g = 0 THEN C ELSE [C EXCEPT ![g] = TRUE]

Unlock(S, g) == [S EXCEPT ![g].lock = 0]

ReqId(c, op) == IF op = "stream-start" THEN 2 * c ELSE 2 * c - 1

Request(c) == Msg(cl[c].op, ReqId(c, cl[c].op), cl[c].code, 0)

Res(k, i, v) == [NoRes EXCEPT !.kind = k, !.id = i, !.val = v]

Return(c, r) == cl' = [cl EXCEPT ![c] = [@ EXCEPT !.pc = "idle", !.res = r]]
Goto(c, pc)  == cl' = [cl EXCEPT ![c] = [@ EXCEPT !.pc = pc]]

\* What the clients send: pairs of a route and its code, expression or
\* package list.
LockOps == {"init", "exec", "eval", "stream-start"}

OneShotMenu ==
    {<<"init", p>> : p \in Packages}
    \cup {<<"exec", c>> : c \in ExecCodes}
    \cup {<<"eval", c>> : c \in {"get", "hang"}}
    \cup {<<"delete", "">>}

StreamMenu ==
    {<<"exec", "set0">>, <<"eval", "get">>}
    \cup {<<"stream-start", c>> : c \in {"gen", "slow"}}
    \cup {<<"stream-exec", "set1">>}
    \cup {<<"stream-stop", "">>}

Pick(ops) == {r \in menu : r[1] \in ops}

\* get_or_create_session() without the is_alive() test.
api_begin_keep_dead(c) ==
    /\ cl[c].pc = "idle" /\ reqLeft > 0
    /\ reqLeft' = reqLeft - 1
    /\ \E r \in Pick(LockOps) :
         IF registry # 0
         THEN /\ cl' = [cl EXCEPT ![c] = [@ EXCEPT !.pc = "lock", !.op = r[1],
                            !.g = registry, !.code = r[2], !.res = NoRes,
                            !.after = IF hs[registry].last \in {"fault", "drained"}
                                      THEN hs[registry].last ELSE ""]]
              /\ hs' = [hs EXCEPT ![registry].last = ""]
              /\ UNCHANGED <<registry, ngen, wk, se, stdin, inClosed, stdout, hw>>
         ELSE /\ ngen < MaxGen
              /\ LET g == ngen + 1 IN
                 /\ registry' = g /\ ngen' = g
                 /\ wk' = [wk EXCEPT ![g] = [NewWorker EXCEPT !.alive = TRUE]]
                 /\ se' = [se EXCEPT ![g] = NewSession]
                 /\ cl' = [cl EXCEPT ![c] = [@ EXCEPT !.pc = "lock", !.op = r[1],
                               !.g = g, !.code = r[2], !.res = NoRes, !.after = ""]]
                 /\ hs' = [hs EXCEPT ![g] = NewSHist]
              /\ UNCHANGED <<stdin, inClosed, stdout, hw>>
    /\ UNCHANGED <<envLeft, stale, menu>>

\* ------------------------------------------------- get_or_create_session()
\* api_init, api_exec, api_eval, api_stream_start up to Session.lock: the
\* registry entry is returned, or replaced when its process has exited.
api_begin(c) ==
    /\ cl[c].pc = "idle" /\ reqLeft > 0
    /\ reqLeft' = reqLeft - 1
    /\ \E r \in Pick(LockOps) :
         IF registry # 0 /\ wk[registry].alive
         THEN /\ cl' = [cl EXCEPT ![c] = [@ EXCEPT !.pc = "lock", !.op = r[1],
                            !.g = registry, !.code = r[2], !.res = NoRes,
                            !.after = IF hs[registry].last \in {"fault", "drained"}
                                      THEN hs[registry].last ELSE ""]]
              /\ hs' = [hs EXCEPT ![registry].last = ""]
              /\ UNCHANGED <<registry, ngen, wk, se, stdin, inClosed, stdout, hw>>
         ELSE /\ ngen < MaxGen
              /\ LET g == ngen + 1 IN
                 /\ registry' = g /\ ngen' = g
                 /\ wk' = [wk EXCEPT ![g] = [NewWorker EXCEPT !.alive = TRUE]]
                 /\ se' = [se EXCEPT ![g] = NewSession]
                 /\ cl' = [cl EXCEPT ![c] = [@ EXCEPT !.pc = "lock", !.op = r[1],
                               !.g = g, !.code = r[2], !.res = NoRes, !.after = ""]]
                 /\ hs' = [hs EXCEPT ![g] = NewSHist]
              /\ UNCHANGED <<stdin, inClosed, stdout, hw>>
    /\ UNCHANGED <<envLeft, stale, menu>>

\* with session.lock, and for exec/eval the head of wait_for_stream_reader():
\* no reader -> return; a live reader -> stream-stop is sent and joined; an
\* ended reader -> straight to the noop.
\* Session.lock never taken.
LockFree_always(g) == TRUE

\* Session.lock, a threading.Lock: free or held by one request thread.
LockFree(g) == se[g].lock = 0

acquire(c) ==
    /\ cl[c].pc = "lock"
    /\ LET g == cl[c].g IN
       /\ LockFree(g)
       /\ IF cl[c].op \in {"exec", "eval"} /\ se[g].rcur = "alive"
          THEN /\ Room(g)
               /\ stdin' = send_message(g, Msg("stream-stop", 0, "", 0))
               /\ se' = Touch([se EXCEPT ![g].lock = c], g)
               /\ hs' = [hs EXCEPT ![g].hstop = TRUE]
               /\ Goto(c, "w_join")
          ELSE /\ se' = [se EXCEPT ![g].lock = c]
               /\ UNCHANGED hs
               /\ Goto(c, IF cl[c].op \in {"exec", "eval"} /\ se[g].rcur = "exited"
                          THEN "w_flush" ELSE "ens")
               /\ UNCHANGED stdin
    /\ UNCHANGED <<wk, inClosed, stdout, hw, envLeft, registry, ngen, reqLeft, stale, menu>>

\* reader.join(timeout): the reader has ended, or the wait expires, the
\* flag is cleared and the second join expires too, the reader being
\* blocked in readline.
wait_for_stream_reader(c) ==
    /\ cl[c].pc = "w_join"
    /\ LET g == cl[c].g IN
       \/ /\ se[g].rcur # "alive"
          /\ UNCHANGED se
       \/ /\ se[g].rcur = "alive" /\ JoinExpires(g)
          /\ se' = [se EXCEPT ![g].streaming = FALSE]
    /\ Goto(c, "w_flush")
    /\ UNCHANGED <<wk, stdin, inClosed, stdout, hw, envLeft, registry, ngen, reqLeft, stale, menu, hs>>

\* flush_worker_reader() and self._stream_reader = None, the end of
\* wait_for_stream_reader().
flush_worker_reader(c) ==
    /\ cl[c].pc = "w_flush"
    /\ LET g == cl[c].g IN
       /\ Room(g)
       /\ se[g].rcur = "alive" => se[g].rold < MaxOld
       /\ stdin' = send_message(g, Msg("noop", 0, "", 0))
       /\ se' = Touch([se EXCEPT ![g].rcur = "none",
                                 ![g].rold = IF se[g].rcur = "alive" THEN @ + 1 ELSE @], g)
    /\ Goto(c, "ens")
    /\ UNCHANGED <<wk, inClosed, stdout, hw, envLeft, registry, ngen, reqLeft, stale, menu, hs>>

\* ensure_initialized() without the _initialized test: init is sent again.
ensure_initialized_resend(c) ==
    /\ cl[c].pc = "ens"
    /\ LET g == cl[c].g IN
       /\ Room(g)
       /\ stdin' = send_message(g, Msg("init", 0, IF cl[c].op = "init" THEN cl[c].code
                                                                        ELSE "none", 0))
       /\ IF CanWrite(g)
          THEN Goto(c, "ens_read") /\ se' = Touch(se, g)
          ELSE Return(c, Res("exception", 0, 0)) /\ se' = Unlock(Touch(se, g), g)
    /\ UNCHANGED <<wk, inClosed, stdout, hw, envLeft, registry, ngen, reqLeft, stale, menu, hs>>

\* ensure_initialized() up to its read loop.  For api_init an initialized
\* Session answers at once; a write that raises ends the request.
ensure_initialized(c) ==
    /\ cl[c].pc = "ens"
    /\ LET g == cl[c].g IN
       IF se[g].init
       THEN /\ IF cl[c].op = "init"
               THEN Return(c, Res("ready", 0, 0)) /\ se' = Unlock(se, g)
               ELSE Goto(c, "send") /\ UNCHANGED se
            /\ UNCHANGED stdin
       ELSE /\ Room(g)
            /\ stdin' = send_message(g, Msg("init", 0, IF cl[c].op = "init" THEN cl[c].code
                                                                             ELSE "none", 0))
            /\ IF CanWrite(g)
               THEN Goto(c, "ens_read") /\ se' = Touch(se, g)
               ELSE Return(c, Res("exception", 0, 0)) /\ se' = Unlock(Touch(se, g), g)
    /\ UNCHANGED <<wk, inClosed, stdout, hw, envLeft, registry, ngen, reqLeft, stale, menu, hs>>

\* A read loop that takes the first progress message for the end of the
\* initialization.
ensure_initialized_read_progress(c) ==
    /\ cl[c].pc = "ens_read"
    /\ LET g == cl[c].g IN
       IF stdout[g] = <<>>
       THEN /\ OutEOF(g)
            /\ Return(c, Res("exception", 0, 0))
            /\ se' = Unlock(se, g)
            /\ UNCHANGED stdout
       ELSE LET m == Head(stdout[g]) IN
            /\ stdout' = [stdout EXCEPT ![g] = Tail(@)]
            /\ CASE m.type \in {"ready", "progress"} ->
                      IF cl[c].op = "init"
                      THEN /\ Return(c, [Res("ready", 0, 0) EXCEPT
                                           !.msgs = Append(cl[c].res.msgs, m)])
                           /\ se' = Unlock([se EXCEPT ![g].init = TRUE], g)
                      ELSE /\ Goto(c, "send")
                           /\ se' = [se EXCEPT ![g].init = TRUE]
                 [] m.type = "error" ->
                      /\ Return(c, Res("exception", 0, 0))
                      /\ se' = Unlock(se, g)
                 [] OTHER ->
                      /\ cl' = [cl EXCEPT ![c].res.msgs =
                                  IF cl[c].op = "init" THEN Append(@, m) ELSE @]
                      /\ UNCHANGED se
    /\ UNCHANGED <<wk, stdin, inClosed, hw, envLeft, registry, ngen, reqLeft, stale, menu, hs>>

\* The read loop of ensure_initialized(): read_line() without a timeout.
\* Every line read is appended to the list api_init returns with "ready";
\* _handle_worker_request drops the list, an exception loses it.
ensure_initialized_read(c) ==
    /\ cl[c].pc = "ens_read"
    /\ LET g == cl[c].g IN
       IF stdout[g] = <<>>
       THEN /\ OutEOF(g)
            /\ Return(c, Res("exception", 0, 0))
            /\ se' = Unlock(se, g)
            /\ UNCHANGED stdout
       ELSE LET m == Head(stdout[g]) IN
            /\ stdout' = [stdout EXCEPT ![g] = Tail(@)]
            /\ CASE m.type = "ready" ->
                      IF cl[c].op = "init"
                      THEN /\ Return(c, [Res("ready", 0, 0) EXCEPT
                                           !.msgs = Append(cl[c].res.msgs, m)])
                           /\ se' = Unlock([se EXCEPT ![g].init = TRUE], g)
                      ELSE /\ Goto(c, "send")
                           /\ se' = [se EXCEPT ![g].init = TRUE]
                 [] m.type = "error" ->
                      /\ Return(c, Res("exception", 0, 0))
                      /\ se' = Unlock(se, g)
                 [] OTHER ->
                      /\ cl' = [cl EXCEPT ![c].res.msgs =
                                  IF cl[c].op = "init" THEN Append(@, m) ELSE @]
                      /\ UNCHANGED se
    /\ UNCHANGED <<wk, stdin, inClosed, hw, envLeft, registry, ngen, reqLeft, stale, menu, hs>>

\* session.send_message(msg) of _handle_worker_request, and for
\* api_stream_start the send followed by start_stream_reader().
send_request(c) ==
    /\ cl[c].pc = "send"
    /\ LET g == cl[c].g IN
       /\ Room(g)
       /\ stdin' = send_message(g, Request(c))
       /\ IF ~CanWrite(g)
          THEN /\ Return(c, Res("exception", 0, 0)) /\ se' = Unlock(Touch(se, g), g)
               /\ UNCHANGED hs
          ELSE IF cl[c].op = "stream-start"
               THEN /\ se[g].rcur = "alive" => se[g].rold < MaxOld
                    /\ Return(c, Res("started", ReqId(c, "stream-start"), 0))
                    /\ hs' = [hs EXCEPT ![g] = [NewSHist EXCEPT !.last = "streaming",
                                                  !.starts = Min(hs[g].starts + 1, 2)]]
                    /\ se' = Unlock(Touch([se EXCEPT
                                 ![g].streaming = TRUE, ![g].squeue = <<>>,
                                 ![g].rcur = "alive",
                                 ![g].rold = IF se[g].rcur = "alive" THEN @ + 1 ELSE @], g), g)
               ELSE Goto(c, "read") /\ se' = Touch(se, g) /\ UNCHANGED hs
    /\ UNCHANGED <<wk, inClosed, stdout, hw, envLeft, registry, ngen, reqLeft, stale, menu>>

\* remove_session() that pops the entry and leaves the process running.
remove_session_no_kill ==
    /\ registry' = 0
    /\ UNCHANGED <<wk, stdin, inClosed>>

\* remove_session() that kills the process and leaves the entry.
remove_session_no_pop ==
    /\ UNCHANGED registry
    /\ wk' = KillWk(wk, registry)
    /\ stdin' = KillIn(stdin, registry)
    /\ inClosed' = KillCl(inClosed, registry)

\* remove_session(): the entry is popped and the Session it named is killed.
remove_session ==
    /\ registry' = 0
    /\ wk' = KillWk(wk, registry)
    /\ stdin' = KillIn(stdin, registry)
    /\ inClosed' = KillCl(inClosed, registry)

\* The read loop of _handle_worker_request(): one read_line_timeout() and
\* what the loop does with its outcome.  stdout_lines and stderr_lines grow
\* in the response under construction and go out with the terminal reply.
handle_worker_request(c) ==
    /\ cl[c].pc = "read"
    /\ LET g  == cl[c].g
           id == ReqId(c, cl[c].op)
           success_type == IF cl[c].op = "exec" THEN "ok" ELSE "value"
       IN
       \/ /\ stdout[g] # <<>>
          /\ LET m == Head(stdout[g]) IN
             /\ stdout' = [stdout EXCEPT ![g] = Tail(@)]
             /\ CASE m.type = "stdout" ->
                       /\ cl' = [cl EXCEPT ![c].res.stdout = Append(@, m.val)]
                       /\ UNCHANGED <<se, hs>>
                  [] m.type = "stderr" ->
                       /\ cl' = [cl EXCEPT ![c].res.stderr = Append(@, m.val)]
                       /\ UNCHANGED <<se, hs>>
                  [] m.type \in {success_type, "error"} /\ m.id = id ->
                       /\ Return(c, [Res(m.type, m.id, m.val) EXCEPT !.err = m.code,
                                       !.stdout = cl[c].res.stdout,
                                       !.stderr = cl[c].res.stderr])
                       /\ se' = Unlock(se, g)
                       /\ hs' = [hs EXCEPT ![g].last =
                                   IF m.type = "error" /\ m.code = "exception"
                                   THEN "fault" ELSE @]
                  [] OTHER -> UNCHANGED <<cl, se, hs>>
          /\ UNCHANGED <<registry, wk, stdin, inClosed>>
       \/ /\ OutEOF(g)
          /\ remove_session
          /\ Return(c, [Res("error", id, 0) EXCEPT !.err = "worker-crashed"])
          /\ se' = Unlock(KillSe(se, registry), g)
          /\ UNCHANGED <<stdout, hs>>
       \/ /\ Silent(g)
          /\ remove_session
          /\ Return(c, [Res("error", id, 0) EXCEPT !.err = "timeout"])
          /\ se' = [Unlock(KillSe(se, registry), g) EXCEPT ![g].helpers = 1]
          /\ UNCHANGED <<stdout, hs>>
    /\ UNCHANGED <<hw, envLeft, ngen, reqLeft, stale, menu>>

\* A read_line_timeout() thread left behind by a timeout reads on.
read_line_timeout_thread(g) ==
    /\ se[g].helpers > 0
    /\ \/ stdout[g] # <<>> /\ stdout' = [stdout EXCEPT ![g] = Tail(@)]
       \/ OutEOF(g) /\ UNCHANGED stdout
    /\ se' = [se EXCEPT ![g].helpers = @ - 1]
    /\ UNCHANGED <<wk, stdin, inClosed, hw, envLeft, registry, ngen, cl, reqLeft, stale, menu, hs>>

\* ------------------------------------------------- start_stream_reader()
\* One turn of the loop of reader(): read_line(), put, and the two exits.
ReaderTurn(g, s) ==
    IF stdout[g] = <<>>
    THEN [s EXCEPT !.squeue = Append(@, Msg("error", 0, "died", 0)),
                   !.streaming = FALSE]
    ELSE LET m == Head(stdout[g]) IN
         [s EXCEPT !.squeue = Append(@, m),
                   !.streaming = IF m.type \in {"stream-done", "error"} THEN FALSE ELSE @]

\* The thread _stream_reader names.
stream_reader(g) ==
    /\ se[g].rcur = "alive"
    /\ stdout[g] # <<>> \/ OutEOF(g)
    /\ Len(se[g].squeue) < MaxQ
    /\ LET s == ReaderTurn(g, se[g]) IN
       se' = [se EXCEPT ![g] = [s EXCEPT !.rcur = IF s.streaming THEN "alive" ELSE "exited"]]
    /\ stdout' = [stdout EXCEPT ![g] = IF @ = <<>> THEN @ ELSE Tail(@)]
    /\ UNCHANGED <<wk, stdin, inClosed, hw, envLeft, registry, ngen, cl, reqLeft, stale, menu, hs>>

\* A reader thread that _stream_reader no longer names.
old_stream_reader(g) ==
    /\ se[g].rold > 0
    /\ stdout[g] # <<>> \/ OutEOF(g)
    /\ Len(se[g].squeue) < MaxQ
    /\ LET s == ReaderTurn(g, se[g]) IN
       se' = [se EXCEPT ![g] = [s EXCEPT !.rold = IF s.streaming THEN @ ELSE @ - 1]]
    /\ stdout' = [stdout EXCEPT ![g] = IF @ = <<>> THEN @ ELSE Tail(@)]
    /\ UNCHANGED <<wk, stdin, inClosed, hw, envLeft, registry, ngen, cl, reqLeft, stale, menu, hs>>

\* ------------------------------------------------------- the other routes
\* The done flag computed from error messages alone.
IsTerminalPoll_error_only(q) == \E i \in 1..Len(q) : q[i].type = "error"

IsTerminalPoll(q) == \E i \in 1..Len(q) : q[i].type \in {"stream-done", "error"}

\* What the poller has been handed so far, message by message.
RECURSIVE Polled(_, _)
Polled(h, q) ==
    IF q = <<>> THEN h
    ELSE LET m == Head(q)
             h1 == CASE m.type = "stream-data" ->
                          [h EXCEPT !.pdata = Min(@ + 1, DoneAt + 1), !.plast = m.val,
                                    !.pbad = @ \/ h.pdone > 0
                                               \/ (h.pdata > 0 /\ m.val # h.plast + 1)]
                     [] m.type = "stream-done" ->
                          [h EXCEPT !.pdone = Min(@ + 1, 2)]
                     [] OTHER -> h
         IN  Polled(h1, Tail(q))

\* api_stream_poll(): drain_stream_queue() and the done flag.
api_stream_poll(c) ==
    /\ cl[c].pc = "idle"
    /\ UNCHANGED reqLeft
    /\ IF registry = 0
       THEN /\ Return(c, [Res("poll", 0, 0) EXCEPT !.done = TRUE])
            /\ UNCHANGED <<se, hs>>
       ELSE LET q == se[registry].squeue
                r == [Res("poll", 0, 0) EXCEPT !.done = IsTerminalPoll(q), !.msgs = q]
            IN  /\ se' = [se EXCEPT ![registry].squeue = <<>>]
                /\ hs' = [hs EXCEPT ![registry] =
                            [Polled(@, q) EXCEPT
                               !.pfin = @ \/ (r.done /\ \E i \in 1..Len(q) :
                                                          q[i].type = "stream-done"),
                               !.last = IF r.done /\ @ = "stopped" THEN "drained" ELSE @]]
                /\ cl' = [cl EXCEPT ![c] = [@ EXCEPT !.op = "stream-poll", !.g = registry,
                            !.res = r, !.pc = IF r.done THEN "p_flush" ELSE "idle"]]
    /\ UNCHANGED <<wk, stdin, inClosed, stdout, hw, envLeft, registry, ngen, stale, menu>>

\* api_stream_poll() after a terminal message: flush_worker_reader().
api_stream_poll_flush(c) ==
    /\ cl[c].pc = "p_flush"
    /\ LET g == cl[c].g IN
       /\ Room(g)
       /\ stdin' = send_message(g, Msg("noop", 0, "", 0))
       /\ se' = Touch(se, g)
    /\ Goto(c, "idle")
    /\ UNCHANGED <<wk, inClosed, stdout, hw, envLeft, registry, ngen, reqLeft, stale, menu, hs>>

\* api_stream_exec() and api_stream_stop(): one send_message() to the
\* registered Session, without Session.lock.
api_stream_control(c) ==
    /\ cl[c].pc = "idle" /\ reqLeft > 0
    /\ reqLeft' = reqLeft - 1
    /\ \E r \in Pick({"stream-exec", "stream-stop"}) :
       LET op == r[1]  code == r[2] IN
         IF registry = 0
         THEN /\ Return(c, Res(IF op = "stream-exec" THEN "no-session" ELSE "stopped", 0, 0))
              /\ UNCHANGED <<stdin, se, hs>>
         ELSE /\ Room(registry)
              /\ stdin' = send_message(registry, Msg(op, 0, code, 0))
              /\ se' = Touch(se, registry)
              /\ cl' = [cl EXCEPT ![c] = [@ EXCEPT !.op = op, !.g = registry, !.code = code,
                          !.res = Res(IF ~CanWrite(registry) THEN "exception"
                                      ELSE IF op = "stream-exec" THEN "queued"
                                      ELSE "stopped", 0, 0)]]
              /\ hs' = [hs EXCEPT ![registry] =
                    IF op = "stream-stop"
                    THEN [@ EXCEPT !.hstop = TRUE,
                            !.last = IF CanWrite(registry) /\ wk[registry].active
                                        /\ @ \in {"streaming", "stopped"}
                                     THEN "stopped" ELSE ""]
                    ELSE [@ EXCEPT !.last = ""]]
    /\ UNCHANGED <<wk, inClosed, stdout, hw, envLeft, registry, ngen, stale, menu>>

\* api_session_delete()
api_session_delete(c) ==
    /\ cl[c].pc = "idle" /\ reqLeft > 0 /\ Pick({"delete"}) # {}
    /\ reqLeft' = reqLeft - 1
    /\ remove_session
    /\ se' = KillSe(se, registry)
    /\ cl' = [cl EXCEPT ![c] = [@ EXCEPT !.op = "delete", !.res = Res("terminated", 0, 0)]]
    /\ UNCHANGED <<stdout, hw, envLeft, ngen, stale, menu, hs>>

\* ------------------------------------------------------ _get_session_id()
\* The routes that start with _get_session_id().
Routes == {"init", "exec", "eval", "stream-start", "stream-poll", "stream-exec",
           "stream-stop", "delete"}

\* A route that passes the missing id on to get_or_create_session(), which
\* spawns a process for a Session registered under None.
api_missing_session_id_unchecked(c) ==
    /\ cl[c].pc = "idle" /\ reqLeft > 0 /\ ngen < MaxGen
    /\ reqLeft' = reqLeft - 1
    /\ ngen' = ngen + 1
    /\ wk' = [wk EXCEPT ![ngen + 1] = [NewWorker EXCEPT !.alive = TRUE]]
    /\ \E op \in Routes :
         cl' = [cl EXCEPT ![c] = [@ EXCEPT !.op = op,
                    !.res = [Res("error", 0, 0) EXCEPT !.err = "missing-session-id"]]]
    /\ UNCHANGED <<stdin, inClosed, stdout, hw, envLeft, registry, se, stale, menu, hs>>

\* A request without the X-Session-ID header: every route returns the 400
\* error before it looks at the registry.
api_missing_session_id(c) ==
    /\ cl[c].pc = "idle" /\ reqLeft > 0
    /\ reqLeft' = reqLeft - 1
    /\ \E op \in Routes :
         cl' = [cl EXCEPT ![c] = [@ EXCEPT !.op = op,
                    !.res = [Res("error", 0, 0) EXCEPT !.err = "missing-session-id"]]]
    /\ UNCHANGED <<wk, stdin, inClosed, stdout, hw, envLeft, registry, ngen, se, stale,
                   menu, hs>>

\* ------------------------------------------------ cleanup_stale_sessions()
\* An hour goes by without a send_message() on the registered Session.
grow_old ==
    /\ registry # 0 /\ ~se[registry].aged
    /\ \A c \in Clients : cl[c].pc \in {"idle", "off"}
    /\ se' = [se EXCEPT ![registry].aged = TRUE]
    /\ UNCHANGED <<wk, stdin, inClosed, stdout, hw, envLeft, registry, ngen, cl, reqLeft, stale, menu, hs>>

\* The sweep collects the ids whose last_active is too old ...
cleanup_collect ==
    /\ ~stale
    /\ registry # 0 /\ se[registry].aged
    /\ stale' = TRUE
    /\ UNCHANGED <<wk, stdin, inClosed, stdout, hw, envLeft, registry, ngen, se, cl, reqLeft, menu, hs>>

\* A sweep that drops its list without removing anything.
cleanup_remove_skip ==
    /\ stale
    /\ stale' = FALSE
    /\ UNCHANGED <<wk, stdin, inClosed, registry, se>>
    /\ UNCHANGED <<stdout, hw, envLeft, ngen, cl, reqLeft, menu, hs>>

\* ... and then calls remove_session() for each of them.
cleanup_remove ==
    /\ stale
    /\ stale' = FALSE
    /\ remove_session
    /\ se' = KillSe(se, registry)
    /\ UNCHANGED <<stdout, hw, envLeft, ngen, cl, reqLeft, menu, hs>>

\* --------------------------------------------------------- specifications
SysInit(m, on, n) ==
    /\ wk = [g \in Gens |-> NewWorker]
    /\ stdin = [g \in Gens |-> <<>>]
    /\ inClosed = [g \in Gens |-> FALSE]
    /\ stdout = [g \in Gens |-> <<>>]
    /\ hw = [g \in Gens |-> NewHist]
    /\ envLeft = 0
    /\ registry = 0 /\ ngen = 0
    /\ se = [g \in Gens |-> NewSession]
    /\ cl = [c \in Clients |-> IF c \in on THEN NewClient ELSE [NewClient EXCEPT !.pc = "off"]]
    /\ reqLeft = n
    /\ stale = FALSE
    /\ menu = m
    /\ hs = [g \in Gens |-> NewSHist]

ClientOneShot(c) ==
    \/ api_begin(c) \/ acquire(c)
    \/ ensure_initialized(c) \/ ensure_initialized_read(c)
    \/ send_request(c) \/ handle_worker_request(c)

ClientStream(c) ==
    \/ wait_for_stream_reader(c) \/ flush_worker_reader(c)
    \/ api_stream_poll(c) \/ api_stream_poll_flush(c)
    \/ api_stream_control(c)

Sweep == grow_old \/ cleanup_collect \/ cleanup_remove

\* One-shot requests of two concurrent clients.
OneShotInit == SysInit(OneShotMenu, {1, 2}, MaxReq)

OneShotNext ==
    \/ \E g \in Gens : WorkerOneShot(g) \/ initialize_ready(g) \/ zombie_exit(g)
    \/ \E c \in Clients : ClientOneShot(c) \/ api_session_delete(c)
    \/ \E g \in Gens : read_line_timeout_thread(g)

OneShotSpec == OneShotInit /\ [][OneShotNext]_vars

\* Streams and the one-shot requests that interleave with them, one client.
Init == SysInit(StreamMenu, {1}, MaxReq)

Next ==
    \/ \E g \in Gens : WorkerOneShot(g) \/ main_other(g) \/ WorkerStream(g)
    \/ \E c \in Clients : ClientOneShot(c) \/ ClientStream(c)
    \/ \E g \in Gens :
         stream_reader(g) \/ old_stream_reader(g) \/ read_line_timeout_thread(g)

Spec == Init /\ [][Next]_vars

\* One stream at a time, polled, with the requests that can cut it short.
PollMenu ==
    {<<"exec", "set0">>, <<"eval", "get">>, <<"stream-start", "gen">>,
     <<"stream-exec", "set1">>, <<"stream-stop", "">>}

PollInit == SysInit(PollMenu, {1}, MaxReq)

PollSpec == PollInit /\ [][Next]_vars

\* The four routes that take Session.lock, from two concurrent clients.
ConcMenu ==
    {<<"init", "none">>, <<"exec", "set0">>, <<"eval", "get">>, <<"stream-start", "gen">>}

ConcInit == SysInit(ConcMenu, {1, 2}, MaxReq)

ConcNext ==
    \/ \E g \in Gens : WorkerOneShot(g) \/ main_other(g) \/ WorkerStream(g)
    \/ \E c \in Clients :
         \/ ClientOneShot(c)
         \/ wait_for_stream_reader(c) \/ flush_worker_reader(c)
    \/ \E g \in Gens :
         stream_reader(g) \/ old_stream_reader(g) \/ read_line_timeout_thread(g)

ConcSpec == ConcInit /\ [][ConcNext]_vars

\* Initialization seen from both ends: worker 1 is a bare process a test
\* writes to, as test_double_init does, and the Sessions of one client are
\* the generations after it.
InitMsgs == {Msg("init", 0, "none", 0), Msg("exec", 1, "set1", 0)}

test_send(g) ==
    /\ wk[g].alive /\ ~inClosed[g] /\ envLeft > 0 /\ Len(stdin[g]) < MaxIn
    /\ \E m \in InitMsgs : stdin' = [stdin EXCEPT ![g] = Append(@, m)]
    /\ envLeft' = envLeft - 1
    /\ UNCHANGED <<wk, inClosed, stdout, hw, ctl>>

InitMenu == {<<"init", p>> : p \in Packages} \cup {<<"exec", "set1">>}

InitInit ==
    /\ wk = [g \in Gens |-> IF g = 1 THEN [NewWorker EXCEPT !.alive = TRUE] ELSE NewWorker]
    /\ stdin = [g \in Gens |-> <<>>]
    /\ inClosed = [g \in Gens |-> FALSE]
    /\ stdout = [g \in Gens |-> <<>>]
    /\ hw = [g \in Gens |-> NewHist]
    /\ envLeft = MaxEnv
    /\ registry = 0 /\ ngen = 1
    /\ se = [g \in Gens |-> NewSession]
    /\ cl = [c \in Clients |-> IF c = 1 THEN NewClient ELSE [NewClient EXCEPT !.pc = "off"]]
    /\ reqLeft = MaxReq
    /\ stale = FALSE
    /\ menu = InitMenu
    /\ hs = [g \in Gens |-> NewSHist]

InitNext ==
    \/ \E g \in Gens :
         \/ main_leftover(g) \/ read_message(g)
         \/ initialize(g) \/ initialize_packages(g) \/ initialize_ready(g)
         \/ exec_code(g) \/ target(g) \/ exec_code_reply(g)
    \/ test_send(1) \/ env_read(1)
    \/ \E c \in Clients : ClientOneShot(c)

InitSpec == InitInit /\ [][InitNext]_vars

\* Code that writes to sys.stdout and sys.stderr, and code that outlasts
\* the worker's timeout, from one client.
OutputMenu == {<<"exec", "print">>, <<"exec", "hang">>}

OutputInit == SysInit(OutputMenu, {1}, MaxReq)

OutputNext ==
    \/ \E g \in Gens :
         \/ main_leftover(g) \/ read_message(g)
         \/ initialize(g) \/ initialize_packages(g)
         \/ exec_code(g) \/ target(g) \/ exec_code_reply(g) \/ zombie_exit(g)
    \/ \E c \in Clients : ClientOneShot(c)

OutputSpec == OutputInit /\ [][OutputNext]_vars

\* The sweep beside the requests of one client.
SweepMenu == {<<"init", "none">>, <<"exec", "set1">>, <<"eval", "get">>}

SweepInit == SysInit(SweepMenu, {1}, MaxReq)

SweepNext ==
    \/ \E g \in Gens :
         \/ main_leftover(g) \/ read_message(g)
         \/ initialize(g) \/ initialize_packages(g)
         \/ exec_code(g) \/ exec_code_reply(g) \/ eval_expr(g) \/ eval_expr_reply(g)
         \/ target(g)
    \/ \E c \in Clients : ClientOneShot(c)
    \/ Sweep

SweepSpec == SweepInit /\ [][SweepNext]_vars

\* The registry under two concurrent clients whose code can end the
\* process and who can delete the session.
RegistryMenu == {<<"init", "none">>, <<"exec", "crash">>, <<"delete", "">>}

RegistryInit == SysInit(RegistryMenu, {1, 2}, MaxReq)

RegistryNext ==
    \/ \E g \in Gens :
         \/ main_leftover(g) \/ read_message(g)
         \/ initialize(g) \/ initialize_packages(g)
         \/ exec_code(g) \/ target(g)
    \/ \E c \in Clients : ClientOneShot(c) \/ api_session_delete(c)

RegistrySpec == RegistryInit /\ [][RegistryNext]_vars

\* Requests with and without the session id, from two clients.
HeaderMenu == {<<"init", "none">>, <<"exec", "set1">>}

HeaderInit == SysInit(HeaderMenu, {1, 2}, MaxReq)

HeaderNext ==
    \/ \E g \in Gens :
         \/ main_leftover(g) \/ read_message(g)
         \/ initialize(g) \/ initialize_packages(g)
         \/ exec_code(g) \/ target(g) \/ exec_code_reply(g)
    \/ \E c \in Clients : ClientOneShot(c) \/ api_missing_session_id(c)

HeaderSpec == HeaderInit /\ [][HeaderNext]_vars

\* Session.read_line() as a function of what is in the worker's stdout
\* pipe.  The pipe carries the records send() writes and whatever else
\* reaches the file descriptor: empty lines, text that is not JSON, and
\* text that is JSON without being an object.
NullLine == Msg("null", 0, "", 0)     \* the line `null`
NumLine  == Msg("num", 0, "", 3)      \* a line that is a number

Lines ==
    {Blank, Junk, NullLine, NumLine, Msg("stdout", 0, "", 1), Msg("value", 1, "", 2)}

\* json.loads of a line that parses.
json_loads(l) == IF l = NullLine THEN NoneMsg ELSE l

stdout_write(g) ==
    /\ wk[g].alive /\ envLeft > 0 /\ Len(stdout[g]) < MaxOut
    /\ \E l \in Lines : stdout' = [stdout EXCEPT ![g] = Append(@, l)]
    /\ envLeft' = envLeft - 1
    /\ UNCHANGED <<wk, stdin, inClosed, hw, ctl>>

process_exit(g) ==
    /\ wk[g].alive
    /\ wk' = [wk EXCEPT ![g] = Dead]
    /\ UNCHANGED <<stdin, inClosed, stdout, hw, envLeft, ctl>>

read_line_call(c) ==
    /\ cl[c].pc = "idle" /\ reqLeft > 0
    /\ cl' = [cl EXCEPT ![c] = [@ EXCEPT !.pc = "read_line", !.g = 1, !.res = NoRes]]
    /\ reqLeft' = reqLeft - 1
    /\ UNCHANGED <<wk, stdin, inClosed, stdout, hw, envLeft, registry, ngen, se,
                   stale, menu, hs>>

\* One turn of `while True`: readline, then return None, continue, or
\* return json.loads(stripped).
read_line(c) ==
    /\ cl[c].pc = "read_line"
    /\ LET g == cl[c].g
           ret(r) == cl' = [cl EXCEPT ![c] = [@ EXCEPT !.pc = "idle",
                               !.res = [NoRes EXCEPT !.kind = "ret", !.msgs = <<r>>]]]
       IN
       IF stdout[g] = <<>>
       THEN /\ ~wk[g].alive
            /\ ret(NoneMsg)
            /\ UNCHANGED stdout
       ELSE /\ stdout' = [stdout EXCEPT ![g] = Tail(@)]
            /\ IF Head(stdout[g]) \in {Blank, Junk}
               THEN UNCHANGED cl
               ELSE ret(json_loads(Head(stdout[g])))
    /\ UNCHANGED <<wk, stdin, inClosed, hw, envLeft, registry, ngen, se, reqLeft,
                   stale, menu, hs>>

LineInit ==
    /\ wk = [g \in Gens |-> IF g = 1 THEN [NewWorker EXCEPT !.alive = TRUE] ELSE NewWorker]
    /\ stdin = [g \in Gens |-> <<>>]
    /\ inClosed = [g \in Gens |-> FALSE]
    /\ stdout = [g \in Gens |-> <<>>]
    /\ hw = [g \in Gens |-> NewHist]
    /\ envLeft = MaxEnv
    /\ registry = 0 /\ ngen = 0
    /\ se = [g \in Gens |-> NewSession]
    /\ cl = [c \in Clients |-> IF c = 1 THEN NewClient ELSE [NewClient EXCEPT !.pc = "off"]]
    /\ reqLeft = MaxReq
    /\ stale = FALSE
    /\ menu = {}
    /\ hs = [g \in Gens |-> NewSHist]

LineNext ==
    \/ stdout_write(1) \/ process_exit(1)
    \/ read_line_call(1) \/ read_line(1)

LineSpec == LineInit /\ [][LineNext]_vars

\* drain_stream_queue(timeout=0.1) step by step, called again and again by
\* one poller, next to the background reader of a running stream whose
\* worker numbers its stream-data 1, 2, ... and ends with stream-done.
stream_source(g) ==
    /\ wk[g].alive /\ envLeft > 0 /\ Len(stdout[g]) < MaxOut
    /\ stdout' = [stdout EXCEPT ![g] =
                    Append(@, IF envLeft = 1 THEN Msg("stream-done", 2, "", 0)
                              ELSE Msg("stream-data", 2, "", MaxEnv - envLeft + 2))]
    /\ envLeft' = envLeft - 1
    /\ UNCHANGED <<wk, stdin, inClosed, hw, ctl>>

drain_stream_queue(c) ==
    /\ cl[c].pc = "idle" /\ registry # 0
    /\ cl' = [cl EXCEPT ![c] = [@ EXCEPT !.op = "stream-poll", !.g = registry,
                 !.res = Res("poll", 0, 0),
                 !.pc = IF se[registry].squeue = <<>> THEN "d_wait" ELSE "d_loop"]]
    /\ UNCHANGED <<wk, stdin, inClosed, stdout, hw, envLeft, registry, ngen, se,
                   reqLeft, stale, menu, hs>>

\* self._stream_queue.get(timeout=timeout): the first message to arrive,
\* or queue.Empty and an empty list.
drain_get(c) ==
    /\ cl[c].pc = "d_wait"
    /\ LET g == cl[c].g IN
       IF se[g].squeue # <<>>
       THEN /\ cl' = [cl EXCEPT ![c] = [@ EXCEPT !.pc = "d_loop",
                        !.res.msgs = Append(@, Head(se[g].squeue))]]
            /\ se' = [se EXCEPT ![g].squeue = Tail(@)]
       ELSE /\ Return(c, cl[c].res)
            /\ UNCHANGED se
    /\ UNCHANGED <<wk, stdin, inClosed, stdout, hw, envLeft, registry, ngen,
                   reqLeft, stale, menu, hs>>

\* A get_nowait() that takes the newest message.
drain_get_nowait_newest(c) ==
    /\ cl[c].pc = "d_loop"
    /\ LET g == cl[c].g
           q == se[g].squeue
       IN
       IF q # <<>>
       THEN /\ cl' = [cl EXCEPT ![c].res.msgs = Append(@, q[Len(q)])]
            /\ se' = [se EXCEPT ![g].squeue = SubSeq(q, 1, Len(q) - 1)]
            /\ UNCHANGED hs
       ELSE /\ Return(c, [cl[c].res EXCEPT !.done = IsTerminalPoll(cl[c].res.msgs)])
            /\ hs' = [hs EXCEPT ![g] = Polled(@, cl[c].res.msgs)]
            /\ UNCHANGED se
    /\ UNCHANGED <<wk, stdin, inClosed, stdout, hw, envLeft, registry, ngen,
                   reqLeft, stale, menu>>

\* One turn of the get_nowait() loop: the next message, or queue.Empty and
\* the return of what was collected.
drain_get_nowait(c) ==
    /\ cl[c].pc = "d_loop"
    /\ LET g == cl[c].g IN
       IF se[g].squeue # <<>>
       THEN /\ cl' = [cl EXCEPT ![c].res.msgs = Append(@, Head(se[g].squeue))]
            /\ se' = [se EXCEPT ![g].squeue = Tail(@)]
            /\ UNCHANGED hs
       ELSE /\ Return(c, [cl[c].res EXCEPT !.done = IsTerminalPoll(cl[c].res.msgs)])
            /\ hs' = [hs EXCEPT ![g] = Polled(@, cl[c].res.msgs)]
            /\ UNCHANGED se
    /\ UNCHANGED <<wk, stdin, inClosed, stdout, hw, envLeft, registry, ngen,
                   reqLeft, stale, menu>>

\* A Session whose stream has just been started: start_stream_reader() has
\* emptied the queue and started the reader.
DrainInit ==
    /\ wk = [g \in Gens |-> IF g = 1 THEN [NewWorker EXCEPT !.alive = TRUE, !.init = TRUE]
                                     ELSE NewWorker]
    /\ stdin = [g \in Gens |-> <<>>]
    /\ inClosed = [g \in Gens |-> FALSE]
    /\ stdout = [g \in Gens |-> <<>>]
    /\ hw = [g \in Gens |-> NewHist]
    /\ envLeft = MaxEnv + 1
    /\ registry = 1 /\ ngen = 1
    /\ se = [g \in Gens |-> IF g = 1
                THEN [NewSession EXCEPT !.init = TRUE, !.streaming = TRUE, !.rcur = "alive"]
                ELSE NewSession]
    /\ cl = [c \in Clients |-> IF c = 1 THEN NewClient ELSE [NewClient EXCEPT !.pc = "off"]]
    /\ reqLeft = 0
    /\ stale = FALSE
    /\ menu = {}
    /\ hs = [g \in Gens |-> IF g = 1 THEN [NewSHist EXCEPT !.last = "streaming", !.starts = 1]
                                     ELSE NewSHist]

DrainNext ==
    \/ stream_source(1) \/ stream_reader(1)
    \/ drain_stream_queue(1) \/ drain_get(1) \/ drain_get_nowait(1)

DrainSpec == DrainInit /\ [][DrainNext]_vars

\* ============================================================ one-shot claims
Returned(c) == cl[c].pc = "read" /\ cl'[c].pc = "idle"

\* C3: the reply to an exec or eval whose code raised is an error with the
\* id of the request and a traceback, and the step that sends it leaves the
\* worker initialized, alive and with the namespace it had; the controller
\* step that returns that error leaves the registry and the process as they
\* were; and an exec of well-formed code that follows a fault on a Session
\* still alive is answered ok.
C3_FaultIsLocal ==
    /\ [](\A c \in Clients :
            ( /\ cl[c].pc = "idle" /\ cl[c].op = "exec" /\ cl[c].code \in {"set0", "set1"}
              /\ cl[c].after = "fault" /\ wk[cl[c].g].alive )
            => cl[c].res.kind = "ok")
    /\ [][ /\ \A g \in Gens :
                ( /\ wk[g].mpc \in {"exec_join", "eval_join"} /\ wk[g].thr = "raised"
                  /\ wk'[g].mpc = "top" )
                => /\ stdout'[g] = Append(stdout[g],
                                          Msg("error", wk[g].cur.id, "exception", 1))
                   /\ wk[g].cur.id # 0
                   /\ wk'[g].alive /\ wk'[g].init /\ wk'[g].ns = wk[g].ns
           /\ \A c \in Clients :
                (Returned(c) /\ cl'[c].res.err = "exception")
                => /\ cl'[c].res.kind = "error" /\ cl'[c].res.id = ReqId(c, cl[c].op)
                   /\ cl'[c].res.val = 1
                   /\ registry' = registry /\ wk' = wk
         ]_vars

C3_Witness ==
    \E c \in Clients :
      /\ cl[c].pc = "idle" /\ cl[c].op = "exec" /\ cl[c].code = "set1"
      /\ cl[c].after = "fault" /\ cl[c].res.kind = "ok"
      /\ wk[cl[c].g].ns.step = 1

C8_CrashRemovesSession ==
    [][\A c \in Clients :
         /\ (cl[c].pc = "read" /\ OutEOF(cl[c].g) /\ cl'[c] # cl[c])
            => /\ cl'[c].pc = "idle"
               /\ cl'[c].res.kind = "error" /\ cl'[c].res.err = "worker-crashed"
               /\ cl'[c].res.id = ReqId(c, cl[c].op)
               /\ registry' = 0 /\ ~wk'[cl[c].g].alive
         /\ (cl[c].pc = "idle" /\ cl'[c].pc = "lock" /\ registry = 0)
            => /\ registry' = ngen + 1 /\ cl'[c].g = registry'
               /\ wk'[registry'].alive /\ ~wk'[registry'].init
               /\ wk'[registry'].ns = EmptyNs
               /\ ~se'[registry'].init
      ]_vars

C8_Witness ==
    /\ cl[1].pc = "idle" /\ cl[1].res.err = "worker-crashed" /\ cl[1].g = 1
    /\ cl[2].pc = "ens_read" /\ cl[2].g = 2 /\ registry = 2
    /\ wk[2].alive /\ ~wk[2].init

\* C9: of the request threads of init, exec, eval and stream-start, at most
\* one at a time is between taking Session.lock and releasing it on a given
\* Session, and the worker's stdin never holds two of their requests.
InExchange == {"w_join", "w_flush", "ens", "ens_read", "send", "read"}

C9_OneExchange ==
    \A g \in Gens :
      /\ Cardinality({c \in Clients : cl[c].g = g /\ cl[c].pc \in InExchange}) <= 1
      /\ \A c \in Clients : (cl[c].g = g /\ cl[c].pc \in InExchange) => se[g].lock = c
      /\ Len(SelectSeq(stdin[g], LAMBDA m : m.type \in {"init", "exec", "eval"})) <= 1

C9_Witness ==
    /\ cl[1].op = "stream-start" /\ cl[1].pc = "send"
    /\ cl[2].op = "exec" /\ cl[2].pc = "lock" /\ cl[2].g = cl[1].g
    /\ se[cl[1].g].lock = 1

C6_ExecAfterStoppedStream ==
    \A c \in Clients :
      ( /\ cl[c].pc = "idle" /\ cl[c].op \in {"exec", "eval"} /\ cl[c].after = "drained" )
      => /\ cl[c].res.kind \in {"ok", "value", "error"}
         /\ cl[c].res.err \notin {"timeout", "worker-crashed"}
         /\ cl[c].res.id = ReqId(c, cl[c].op)
         /\ (cl[c].res.kind = "value" /\ wk[cl[c].g].alive)
               => cl[c].res.val = wk[cl[c].g].ns.step

\* C10: the step that ends wait_for_stream_reader() is taken with the
\* background reader thread of the Session ended.
C10_ReaderHasExited ==
    [][\A c \in Clients :
         (cl[c].pc = "w_flush" /\ cl'[c].pc = "ens") => se[cl[c].g].rcur # "alive"]_vars

\* ======================================================= initialization claims
\* C11: init is idempotent.  The step in which an initialized worker handles
\* an init sends exactly one ready and is back at the top of its loop, with
\* no progress message, no package step and the namespace it had; and
\* ensure_initialized() on a Session marked initialized writes nothing to
\* the worker and hands back an empty message list.
C11_InitIdempotent ==
    [][ /\ \A g \in Gens :
             (/\ wk[g].mpc = "dispatch" /\ wk[g].cur.type = "init" /\ wk[g].init
              /\ wk'[g] # wk[g] /\ wk'[g].alive)
             => /\ stdout'[g] = Append(stdout[g], Msg("ready", 0, "", 0))
                /\ wk'[g].mpc = "top"
                /\ wk'[g].ns = wk[g].ns
                /\ wk'[g].init
        /\ \A c \in Clients :
             (cl[c].pc = "ens" /\ se[cl[c].g].init /\ cl'[c].pc # "ens")
             => /\ stdin' = stdin
                /\ cl'[c].pc # "ens_read"
                /\ cl'[c].res.msgs = <<>>
                /\ cl[c].op = "init" => cl'[c].pc = "idle" /\ cl'[c].res.kind = "ready"
      ]_vars

\* Worker 1 answered an init after code had written its namespace, and the
\* client's init on an initialized Session came back with no messages.
C11_Witness ==
    /\ wk[1].init /\ wk[1].mpc = "top" /\ wk[1].cur.type = "init"
    /\ wk[1].ns # EmptyNs
    /\ cl[1].pc = "idle" /\ cl[1].op = "init" /\ cl[1].res.kind = "ready"
    /\ cl[1].res.msgs = <<>>
    /\ cl[1].g # 0 /\ se[cl[1].g].init

\* C12: an api_init whose required package fails comes back as an exception
\* after the worker sent exactly one error and no ready: the worker is back
\* at the top of its loop with nothing left in its stdout, and neither the
\* worker nor the Session is initialized, so that the next ensure_initialized
\* writes init again and the worker runs initialize() from the start.  An
\* api_init with a failing optional package comes back ready with the
\* messages progress, stderr, ready, and nothing follows that ready.
InitDone(c) == cl[c].pc = "idle" /\ cl[c].op = "init" /\ cl[c].res.kind # "none"

C12_PackageFailure ==
    /\ [](\A c \in Clients : InitDone(c) =>
            LET g == cl[c].g IN
            /\ cl[c].res.kind \in {"ready", "exception"}
            /\ stdout[g] = <<>> /\ MainIdle(g)
            /\ cl[c].res.kind = "exception" =>
                  /\ cl[c].code = "req_fail"
                  /\ ~se[g].init /\ ~wk[g].init /\ cl[c].res.msgs = <<>>
            /\ cl[c].res.kind = "ready" =>
                  /\ se[g].init /\ wk[g].init
                  /\ cl[c].res.msgs # <<>> =>
                        /\ cl[c].code # "req_fail"
                        /\ cl[c].res.msgs =
                             IF cl[c].code = "opt_fail"
                             THEN << Msg("progress", 0, "", 0), Msg("stderr", 0, "", 0),
                                     Msg("ready", 0, "", 0) >>
                             ELSE << Msg("progress", 0, "", 0), Msg("ready", 0, "", 0) >>)
    /\ [][ /\ \A c \in Clients :
                (cl[c].pc = "ens" /\ ~se[cl[c].g].init /\ cl'[c].pc # "ens")
                => /\ cl'[c].pc = "ens_read"
                   /\ stdin'[cl[c].g] = Append(stdin[cl[c].g],
                         Msg("init", 0, IF cl[c].op = "init" THEN cl[c].code ELSE "none", 0))
           /\ \A g \in Gens :
                (/\ wk[g].mpc = "dispatch" /\ wk[g].cur.type = "init" /\ ~wk[g].init
                 /\ wk'[g] # wk[g] /\ wk'[g].alive)
                => /\ wk'[g].mpc = "init_pkg" /\ wk'[g].ns = EmptyNs
                   /\ stdout'[g] = Append(stdout[g], Msg("progress", 0, "", 0))
         ]_vars

\* The second request of the client is an init with a failing optional
\* package that initialized the Session: the first was an init whose
\* required package failed.
C12_Witness ==
    /\ reqLeft = MaxReq - 2
    /\ InitDone(1) /\ cl[1].code = "opt_fail" /\ cl[1].res.kind = "ready"
    /\ Len(cl[1].res.msgs) = 3

\* C13: the step in which a worker that is not initialized handles an exec,
\* eval or stream-start that carries an id sends one error with that id and
\* the message "Worker not initialized" and is back at the top of its loop:
\* no thread was started for the code, no stream was entered, the namespace
\* is what it was and the worker is still not initialized.
C13_NotInitialized ==
    [][ \A g \in Gens :
          (/\ wk[g].mpc = "dispatch" /\ ~wk[g].init /\ wk[g].cur.id # 0
           /\ wk[g].cur.type \in {"exec", "eval", "stream-start"}
           /\ wk'[g] # wk[g] /\ wk'[g].alive)
          => /\ stdout'[g] = Append(stdout[g],
                                    Msg("error", wk[g].cur.id, "not_initialized", 0))
             /\ wk'[g] = [wk[g] EXCEPT !.mpc = "top"]
             /\ hw'[g].nswrites = hw[g].nswrites /\ hw'[g].entered = hw[g].entered
             /\ hw'[g].replies = 1
      ]_vars

\* An uninitialized worker has answered three requests, the last of them a
\* stream-start, and the errors of the last two are in its stdout.
C13_Witness ==
    /\ ~wk[1].init /\ wk[1].mpc = "top" /\ wk[1].cur.type = "stream-start"
    /\ wk[1].cur.id # 0 /\ hw[1].replies = 1 /\ wk[1].ns = EmptyNs
    /\ envLeft = MaxEnv - 3
    /\ Len(stdout[1]) = 2
    /\ stdout[1][1] = Msg("error", 1, "not_initialized", 0)
    /\ stdout[1][2] = Msg("error", 2, "not_initialized", 0)

\* ============================================================ output claims
\* C14: when an exec or eval returns the terminal reply of the worker, the
\* stdout list attached to it is, in order, what the code of that request
\* wrote to sys.stdout, and the stderr list what it wrote to sys.stderr.
C14_OutputOfTheRequest ==
    [][ \A c \in Clients :
          (Returned(c) /\ cl'[c].res.kind \in Terminal
                       /\ cl'[c].res.err \notin {"timeout", "worker-crashed"})
          => /\ cl'[c].res.stdout = hw[cl[c].g].outs
             /\ cl'[c].res.stderr = hw[cl[c].g].errs
      ]_vars

\* ============================================================ registry claims
\* C15: the sweep that found the Session of the id older than SESSION_TTL
\* leaves the id without an entry and every worker process spawned for it
\* so far dead; and the get_or_create_session() that follows an empty entry
\* registers a new Session, not initialized, whose worker is a new process,
\* not initialized, with an empty namespace and nothing in its pipes.
C15_SweepRemovesStale ==
    [][ /\ (stale /\ ~stale') =>
             /\ registry' = 0
             /\ \A g \in 1..ngen : ~wk'[g].alive /\ inClosed'[g]
        /\ \A c \in Clients :
             (cl[c].pc = "idle" /\ cl'[c].pc = "lock" /\ registry = 0) =>
               LET g == cl'[c].g IN
               /\ g = ngen + 1 /\ registry' = g
               /\ wk'[g] = [NewWorker EXCEPT !.alive = TRUE]
               /\ se'[g] = NewSession
               /\ stdin'[g] = <<>> /\ stdout'[g] = <<>>
      ]_vars

\* Session 1 was initialized, went stale and was swept; the next request got
\* Session 2, whose worker is running and not yet initialized.
C15_Witness ==
    /\ se[1].aged /\ se[1].init /\ ~wk[1].alive
    /\ registry = 2 /\ wk[2].alive /\ ~wk[2].init /\ wk[2].ns = EmptyNs
    /\ ~stale /\ cl[1].g = 2

\* C16: get_or_create_session() returns the registered Session when its
\* process is running, and spawns nothing; otherwise it registers and
\* returns a new Session with a new running process, exactly one.  So the
\* Session it returns is never one whose process it saw exited, and the
\* calls made while one process runs all return the same Session.
Obtains(c) == cl[c].pc = "idle" /\ cl'[c].pc = "lock"

C16_GetOrCreate ==
    [][ \A c \in Clients : Obtains(c) =>
          LET g == cl'[c].g IN
          /\ g # 0 /\ registry' = g /\ wk'[g].alive
          /\ IF registry # 0 /\ wk[registry].alive
             THEN g = registry /\ ngen' = ngen /\ wk' = wk /\ se' = se
             ELSE /\ g = ngen + 1 /\ ngen' = g
                  /\ \A h \in Gens \ {g} : wk'[h] = wk[h]
          /\ \A d \in Clients \ {c} :
                (cl[d].pc \notin {"idle", "off"} /\ wk[cl[d].g].alive /\ registry = cl[d].g)
                => g = cl[d].g
      ]_vars

\* Both clients hold Session 2, obtained after the process of Session 1
\* had exited.
C16_Witness ==
    /\ ngen = 2 /\ registry = 2 /\ wk[2].alive /\ ~wk[1].alive
    /\ cl[1].g = 2 /\ cl[2].g = 2
    /\ cl[1].pc \notin {"idle", "off"} /\ cl[2].pc \notin {"idle", "off"}

\* C17: a step that calls remove_session() - api_session_delete, or
\* _handle_worker_request on a dead or silent worker - leaves the id without
\* an entry; the Session that was registered has its process killed and its
\* stdin closed, and no other process is touched; with no entry registered
\* no process changes at all.
Removes ==
    \/ /\ reqLeft' # reqLeft /\ \A d \in Clients : cl'[d].pc = cl[d].pc
       /\ \E c \in Clients : cl'[c].pc = "idle" /\ cl'[c].op = "delete"
    \/ \E c \in Clients : Returned(c) /\ cl'[c].res.err \in {"worker-crashed", "timeout"}

C17_RemoveSession ==
    [][ Removes =>
          /\ registry' = 0
          /\ IF registry = 0
             THEN wk' = wk /\ stdin' = stdin /\ inClosed' = inClosed
             ELSE /\ ~wk'[registry].alive /\ inClosed'[registry]
                  /\ \A g \in Gens \ {registry} :
                        wk'[g] = wk[g] /\ stdin'[g] = stdin[g] /\ inClosed'[g] = inClosed[g]
      ]_vars

\* Three requests: one created Session 1 and two deleted the session, one
\* of them finding the entry and the other finding none.
C17_Witness ==
    /\ reqLeft = MaxReq - 3 /\ ngen = 1 /\ registry = 0 /\ ~wk[1].alive
    /\ cl[1].pc = "idle" /\ cl[1].op = "delete"
    /\ cl[2].pc = "idle" /\ cl[2].op = "delete"

\* C18: a request without a session id, on whichever route, returns a
\* client error and leaves the registry, the Sessions, the worker processes
\* and what was written to them as they were.  (In HeaderSpec the only other
\* step that takes a request keeps no client idle.)
NoSessionId(c) ==
    /\ reqLeft' # reqLeft /\ cl[c].pc = "idle" /\ cl'[c].pc = "idle"
    /\ \A d \in Clients : cl'[d].pc = cl[d].pc

C18_MissingSessionId ==
    [][ \A c \in Clients : NoSessionId(c) =>
          /\ \E d \in Clients :
                /\ cl'[d].res.kind = "error" /\ cl'[d].res.err = "missing-session-id"
                /\ cl'[d].op \in Routes /\ cl[d].pc = "idle"
                /\ \A e \in Clients \ {d} : cl'[e] = cl[e]
          /\ registry' = registry /\ ngen' = ngen /\ se' = se
          /\ wk' = wk /\ stdin' = stdin /\ inClosed' = inClosed /\ stdout' = stdout
      ]_vars

\* Client 1 obtained the registered Session earlier and has since been
\* refused a stream-stop without id, while client 2 is inside a request on
\* that Session.
C18_Witness ==
    /\ registry # 0 /\ wk[registry].alive /\ se[registry].init
    /\ cl[1].g = registry /\ cl[1].pc = "idle"
    /\ cl[1].op = "stream-stop" /\ cl[1].res.err = "missing-session-id"
    /\ cl[2].g = registry /\ cl[2].pc = "read"

\* ============================================================ reader claims
\* The controller threads that are in a read of the stdout of a Session's
\* worker: the background reader _stream_reader names, readers it no longer
\* names, read_line_timeout helpers left behind, and the request threads
\* inside ensure_initialized's read_line or waiting on a helper.
Readers(g) ==
    (IF se[g].rcur = "alive" THEN 1 ELSE 0) + se[g].rold + se[g].helpers
    + Cardinality({c \in Clients : cl[c].g = g /\ cl[c].pc \in {"ens_read", "read"}})

\* C19: at most one controller thread reads the output of a Session's
\* worker at any time.
C19_SingleReader == \A g \in Gens : Readers(g) <= 1

\* A stream of the worker that is not over for the controller: the worker
\* has a stream-start to take up or is inside run_streaming_loop(), or a
\* stream-done sits unread in its stdout, or a background reader lives.
HasType(q, t) == \E i \in 1..Len(q) : q[i].type = t

StreamPending(g) ==
    \/ HasType(stdin[g], "stream-start") \/ HasType(wk[g].leftover, "stream-start")
    \/ wk[g].mpc = "dispatch" /\ wk[g].cur.type = "stream-start"
    \/ wk[g].mpc \in {"s_while", "s_codeq", "s_join", "s_finally"}
    \/ HasType(stdout[g], "stream-done")
    \/ se[g].rcur = "alive" \/ se[g].rold > 0

\* C20: the step in which _handle_worker_request writes an exec or eval to
\* the worker is taken with no stream pending: when a stream was active, its
\* stream-done has been emitted and read by the background reader, which
\* has ended.
C20_StreamDoneBeforeRequest ==
    [][ \A c \in Clients :
          (cl[c].pc = "send" /\ cl'[c].pc = "read" /\ cl[c].op \in {"exec", "eval"})
          => ~StreamPending(cl[c].g)
      ]_vars

\* ============================================================ stdin claims
\* The requests in q that were written while the loop ran and are not
\* stream-control.
Deferred(q) ==
    {i \in 1..Len(q) : q[i].val = 1 /\ q[i].type \notin {"stream-stop", "stream-exec"}}

\* C21: a message other than stream-stop / stream-exec written to the worker
\* while its streaming loop runs is not taken up by the main loop during the
\* stream, and once the stream has ended the main loop does not go to read
\* stdin while such a message waits in _leftover_queue: it would then be
\* handled only after a further line arrived, and after that line.
C21_LeftoverHandled ==
    /\ [](\A g \in Gens : wk[g].mpc = "read" => Deferred(wk[g].leftover) = {})
    /\ [][\A g \in Gens : wk'[g].cur # wk[g].cur => ~InLoop(g)]_vars

\* The worker threads of generation g that are blocked in, or performing, a
\* read of stdin: main() in read_message(), the stream-control reader of the
\* running stream, the readers of ended streams that have not exited.
StdinReaders(g) ==
    (IF wk[g].alive /\ wk[g].mpc = "read" THEN 1 ELSE 0)
    + (IF wk[g].alive /\ wk[g].rdr = "reading" THEN 1 ELSE 0)
    + (IF wk[g].alive THEN wk[g].stale ELSE 0)

\* C22: at any instant at most one thread of a worker is blocked in or
\* performing a read of stdin; in particular, after a stream has ended the
\* main loop is not in read_message() while a stream-control reader thread
\* of an ended stream has not exited.
C22_SingleStdinReader == \A g \in Gens : StdinReaders(g) <= 1

\* ============================================================ stream claims 2
\* The loop of the stream-start written last to worker g has not ended: the
\* worker is inside a streaming loop, or a stream-start is still on its way
\* to run_streaming_loop().
LoopNotEnded(g) ==
    /\ wk[g].alive
    /\ \/ InLoop(g)
       \/ wk[g].mpc = "dispatch" /\ wk[g].cur.type = "stream-start"
       \/ HasType(stdin[g], "stream-start")
       \/ HasType(wk[g].leftover, "stream-start")

\* C23: what a poll returns after stream-start belongs to that stream.  Every
\* message with an id carries the id of the stream-start, a stream-done is
\* returned only when the worker's loop for the stream has ended, and done is
\* reported for a registered session only when that loop has ended or the
\* worker has died.
C23_PollOfThisStream ==
    [][\A c \in Clients :
         ( /\ cl[c].pc = "idle" /\ cl'[c] # cl[c] /\ cl'[c].op = "stream-poll"
           /\ registry # 0 /\ hs[registry].starts > 0 )
         => LET r == cl'[c].res IN
            /\ \A i \in 1..Len(r.msgs) :
                  /\ r.msgs[i].id \in {0, ReqId(c, "stream-start")}
                  /\ r.msgs[i].type = "stream-done" => ~LoopNotEnded(registry)
            /\ r.done => ~LoopNotEnded(registry)]_vars

\* ============================================================ thread claims
\* The threads of worker g that are inside user code: the thread
\* _run_with_timeout started for the request in hand, and a thread of an
\* earlier request that outlived its time budget.
UserCodeThreads(g) ==
    (IF wk[g].thr \in {"running", "printed1", "printed2"} THEN 1 ELSE 0)
    + (IF wk[g].zombie THEN 1 ELSE 0)

\* C24: at any instant at most one thread of a worker is executing user code
\* against the namespace, also after a request that hit the time budget; and
\* the main thread runs queued stream-exec code only while no other thread
\* is in user code.
C24_OneUserCodeThread ==
    /\ [](\A g \in Gens : wk[g].alive => UserCodeThreads(g) <= 1)
    /\ [][\A g \in Gens :
            (wk[g].mpc = "s_codeq" /\ wk[g].codeq # <<>> /\ wk'[g].codeq # wk[g].codeq)
            => UserCodeThreads(g) = 0]_vars

\* ========================================================== progress claims
\* initialize() blocked for good in one of its imports or in the pip
\* subprocess, neither of which has a timeout: the worker stays alive and
\* writes nothing more.
initialize_hangs(g) ==
    /\ Running(g) /\ wk[g].mpc = "init_pkg"
    /\ wk' = [wk EXCEPT ![g] = [@ EXCEPT !.frozen = TRUE]]
    /\ UNCHANGED <<stdin, inClosed, stdout, hw, envLeft, ctl>>

\* exec / eval of two clients on workers that answer, hang or crash.  The
\* controller's threads and a worker that is not blocked keep running; a
\* worker is never obliged to hang.
ReturnMenu == {<<"exec", "set0">>, <<"exec", "freeze">>, <<"exec", "crash">>, <<"eval", "get">>}

ReturnInit == SysInit(ReturnMenu, {1, 2}, MaxReq)

ReturnWorker ==
    \E g \in Gens :
       \/ main_leftover(g) \/ read_message(g)
       \/ initialize(g) \/ initialize_packages(g)
       \/ exec_code(g) \/ target(g) \/ exec_code_reply(g)
       \/ eval_expr(g) \/ eval_expr_reply(g)

ReturnNext ==
    \/ ReturnWorker
    \/ \E g \in Gens : initialize_hangs(g)
    \/ \E c \in Clients : ClientOneShot(c)
    \/ \E g \in Gens : read_line_timeout_thread(g)

ReturnSpec ==
    /\ ReturnInit /\ [][ReturnNext]_vars
    /\ WF_vars(ReturnWorker)
    /\ \A c \in Clients : WF_vars(ClientOneShot(c))
    /\ WF_vars(\E g \in Gens : read_line_timeout_thread(g))

\* C25: every exec / eval call the dispatcher has taken up eventually
\* returns, with Session.lock released, whatever the worker does.
C25_CallReturns ==
    \A c \in Clients :
      (cl[c].op \in {"exec", "eval"} /\ cl[c].pc # "idle")
        ~> (cl[c].pc = "idle" /\ \A g \in Gens : se[g].lock # c)

\* One stream and the exec that can cut it short: client 1 issues the
\* requests while client 2, the frontend's poll chain, polls.  The worker,
\* the request threads, the poller and the reader threads all keep running.
PollingMenu == {<<"stream-start", "slow">>, <<"exec", "set0">>}

PollingInit == SysInit(PollingMenu, {1, 2}, MaxReq)

PollingWorker ==
    \E g \in Gens :
       \/ main_leftover(g) \/ read_message(g) \/ main_other(g)
       \/ initialize(g) \/ initialize_packages(g)
       \/ exec_code(g) \/ target(g) \/ exec_code_reply(g)
       \/ WorkerStream(g)

PollingRequester(c) ==
    \/ ClientOneShot(c)
    \/ wait_for_stream_reader(c) \/ flush_worker_reader(c)

PollingPoller(c) == api_stream_poll(c) \/ api_stream_poll_flush(c)

PollingNext ==
    \/ PollingWorker
    \/ PollingRequester(1)
    \/ PollingPoller(2)
    \/ \E g \in Gens : stream_reader(g) \/ old_stream_reader(g)

PollingSpec ==
    /\ PollingInit /\ [][PollingNext]_vars
    /\ WF_vars(PollingWorker)
    /\ WF_vars(PollingRequester(1))
    /\ WF_vars(PollingPoller(2))
    /\ \A g \in Gens : WF_vars(stream_reader(g)) /\ WF_vars(old_stream_reader(g))

\* A poll of Session g has reported done.
PollDone(g) ==
    \E c \in Clients : cl[c].op = "stream-poll" /\ cl[c].g = g /\ cl[c].res.done

\* C26: when a Session stays registered with its one stream started and the
\* worker's loop for that stream ended, some poll of it reports done.
C26_PollerSeesDone ==
    \A g \in Gens :
      <>[](registry = g /\ hs[g].starts = 1 /\ ~LoopNotEnded(g)) => <>PollDone(g)

\* ============================================================ death claims
\* The worker process ends inside initialize(): an import or a package's
\* native code aborts the interpreter.
initialize_exits(g) ==
    /\ Running(g) /\ wk[g].mpc = "init_pkg"
    /\ wk' = [wk EXCEPT ![g] = Dead]
    /\ stdin' = [stdin EXCEPT ![g] = <<>>]
    /\ UNCHANGED <<inClosed, stdout, hw, envLeft, ctl>>

\* Workers that die during initialization or during a stream, one client.
DeathMenu == {<<"init", "none">>, <<"stream-start", "crash">>, <<"stream-start", "gen">>}

DeathInit == SysInit(DeathMenu, {1}, MaxReq)

DeathNext ==
    \/ \E g \in Gens :
         \/ main_leftover(g) \/ read_message(g) \/ main_other(g)
         \/ initialize(g) \/ initialize_packages(g) \/ initialize_exits(g)
         \/ target(g) \/ WorkerStream(g)
    \/ \E c \in Clients :
         \/ api_begin(c) \/ acquire(c) \/ ensure_initialized(c)
         \/ ensure_initialized_read(c) \/ send_request(c)
         \/ api_stream_poll(c) \/ api_stream_poll_flush(c)
    \/ \E g \in Gens : stream_reader(g) \/ old_stream_reader(g)

DeathSpec == DeathInit /\ [][DeathNext]_vars

\* C27: the step in which ensure_initialized() or the background stream
\* reader reads end-of-file from a dead worker leaves the Session removed
\* from the registry.
C27_DeadSessionRemoved ==
    [][ /\ \A c \in Clients :
             (cl[c].pc = "ens_read" /\ cl'[c].pc = "idle" /\ OutEOF(cl[c].g))
             => registry' # cl[c].g
        /\ \A g \in Gens :
             (se[g].rcur = "alive" /\ se'[g].rcur = "exited" /\ OutEOF(g))
             => registry' # g
      ]_vars

\* C28: the step in which a request that saw its worker dead or unresponsive
\* tears the session down leaves every Session other than the one the
\* request was using untouched: a newer Session registered under the id
\* stays registered and its worker is not killed.
C28_TeardownOfObserved ==
    [][\A c \in Clients :
         (Returned(c) /\ cl'[c].res.err \in {"worker-crashed", "timeout"})
         => \A g \in Gens \ {cl[c].g} :
               /\ wk'[g] = wk[g] /\ stdin'[g] = stdin[g] /\ inClosed'[g] = inClosed[g]
               /\ registry = g => registry' = g]_vars

\* ============================================================ sweep claims 2
\* A long stream that is polled, and the sweep.
StreamSweepMenu == {<<"stream-start", "gen">>}

StreamSweepInit == SysInit(StreamSweepMenu, {1}, MaxReq)

StreamSweepNext ==
    \/ \E g \in Gens :
         \/ main_leftover(g) \/ read_message(g) \/ main_other(g)
         \/ initialize(g) \/ initialize_packages(g)
         \/ target(g) \/ WorkerStream(g)
    \/ \E c \in Clients :
         \/ api_begin(c) \/ acquire(c) \/ ensure_initialized(c)
         \/ ensure_initialized_read(c) \/ send_request(c)
         \/ api_stream_poll(c) \/ api_stream_poll_flush(c)
    \/ \E g \in Gens : stream_reader(g) \/ old_stream_reader(g)
    \/ Sweep

StreamSweepSpec == StreamSweepInit /\ [][StreamSweepNext]_vars

\* C29: a dispatcher operation on the registered session counts as activity.
\* After the step in which a poll is served, and after the step in which an
\* init / exec / eval / stream-start call returns, the session is within the
\* inactivity threshold; and the sweep's removal step terminates only a
\* session that is past the threshold.
C29_ActiveSessionNotSwept ==
    [][ /\ \A c \in Clients :
             ( /\ cl[c].pc = "idle" /\ cl'[c] # cl[c] /\ cl'[c].op = "stream-poll"
               /\ registry # 0 )
             => ~se'[registry].aged
        /\ \A c \in Clients :
             ( /\ cl[c].pc \notin {"idle", "off", "p_flush"} /\ cl'[c].pc = "idle"
               /\ registry' = cl[c].g )
             => ~se'[cl[c].g].aged
        /\ (stale /\ ~stale' /\ registry # 0) => se[registry].aged
      ]_vars

\* ============================================================ stream claims 3
\* The step that takes the result of a stream step which a stream-stop
\* overtook: the thread has returned and _streaming_active is False.
StoppedStep(g) ==
    /\ wk[g].mpc = "s_join" /\ wk'[g].mpc # "s_join" /\ wk'[g].alive
    /\ wk[g].thr = "ok" /\ ~wk[g].active

\* C30 as stated: the result of a stopped step is emitted as one stream-data
\* whenever it is not done, and not emitted when it is done.
C30_Original ==
    [][\A g \in Gens :
         StoppedStep(g)
         => stdout'[g] = IF ~wk[g].ns.resDone
                         THEN Append(stdout[g],
                                     Msg("stream-data", wk[g].cur.id, "", wk[g].ns.res))
                         ELSE stdout[g]]_vars

\* C30 amended: the result of a stopped step is emitted as one stream-data
\* when it is not done and its result entry is truthy, and nothing is
\* emitted for it otherwise; the loop is left and the next message the
\* worker writes is the stream-done.
C30_StopDuringStep ==
    /\ [][\A g \in Gens :
            StoppedStep(g)
            => /\ wk'[g].mpc = "s_finally"
               /\ stdout'[g] = IF ~wk[g].ns.resDone /\ Truthy(wk[g].ns.res)
                                THEN Append(stdout[g],
                                            Msg("stream-data", wk[g].cur.id, "", wk[g].ns.res))
                                ELSE stdout[g]]_vars
    /\ [][\A g \in Gens :
            (wk[g].mpc = "s_finally" /\ wk'[g].mpc # "s_finally" /\ wk'[g].alive)
            => stdout'[g] = Append(stdout[g], Msg("stream-done", wk[g].cur.id, "", 0))]_vars

\* The first step of a stream returned an empty result that was not done,
\* a stream-stop was read meanwhile, and the loop was left with nothing
\* written for the step.
C30_Witness ==
    /\ wk[1].mpc = "s_finally" /\ wk[1].cur.code = "empty" /\ hw[1].ended = "stop"
    /\ hw[1].notdone = 1 /\ ~wk[1].ns.resDone /\ wk[1].ns.res = 0
    /\ stdin[1] = <<>> /\ stdout[1] = <<>>

\* The step in which the stream-control reader of the running stream takes
\* a stream-stop from stdin and clears _streaming_active.
StopProcessed(g) ==
    /\ InLoop(g) /\ wk[g].rdr = "reading" /\ wk[g].active /\ ~wk'[g].active
    /\ stdin[g] # <<>> /\ Head(stdin[g]).type = "stream-stop"

\* C31: stream-stop is cooperative.  The step in which the reader processes
\* it changes nothing of the main thread and of the step in flight; once the
\* flag is cleared it stays cleared for the rest of the loop, the loop test
\* leaves the loop, and the step that was started or is started in the
\* current iteration is the last one: after it the loop goes to its finally
\* clause, whose next and only message is stream-done.
C31_StopIsCooperative ==
    /\ [][\A g \in Gens :
            StopProcessed(g)
            => /\ wk'[g].mpc = wk[g].mpc /\ wk'[g].thr = wk[g].thr
               /\ wk'[g].ns = wk[g].ns /\ wk'[g].cur = wk[g].cur
               /\ stdout'[g] = stdout[g]]_vars
    /\ [][\A g \in Gens :
            (InLoop(g) /\ ~wk[g].active /\ wk'[g].alive /\ wk'[g] # wk[g])
            => /\ ~wk'[g].active
               /\ wk[g].mpc = "s_while" => wk'[g].mpc \in {"s_while", "s_finally"}
               /\ wk[g].mpc = "s_codeq" => wk'[g].mpc \in {"s_codeq", "s_join"}
               /\ wk[g].mpc = "s_join" => wk'[g].mpc \in {"s_join", "s_finally"}]_vars
    /\ [][\A g \in Gens :
            (wk[g].mpc = "s_finally" /\ wk'[g].mpc # "s_finally" /\ wk'[g].alive)
            => /\ wk'[g].mpc = "top"
               /\ stdout'[g] = Append(stdout[g],
                                      Msg("stream-done", wk[g].cur.id, "", 0))]_vars

\* A stream-stop was processed while a step of an endless stream was
\* executing; the step has finished and the loop is in its finally clause.
C31_Witness ==
    /\ wk[1].mpc = "s_finally" /\ wk[1].cur.code = "inf" /\ ~wk[1].active
    /\ hw[1].ended = "stop" /\ hw[1].notdone >= 2

\* The main thread takes the head of _streaming_code_queue and runs it.
RunsQueued(g) ==
    /\ wk[g].mpc = "s_codeq" /\ wk[g].codeq # <<>> /\ wk'[g].alive
    /\ Len(wk'[g].codeq) < Len(wk[g].codeq)

\* C32: queued stream-exec code that raises costs one stderr message and
\* nothing else: the rest of the queue is kept and run next, the flag and
\* the namespace are as they were, and the iteration goes on to its step
\* (from the queue the loop only ever moves on to the step's join).
C32_QueuedCodeFailure ==
    /\ [][\A g \in Gens :
            (RunsQueued(g) /\ Head(wk[g].codeq) = "raise")
            => /\ stdout'[g] = Append(stdout[g], Msg("stderr", 0, "", 0))
               /\ wk'[g].codeq = Tail(wk[g].codeq)
               /\ wk'[g].mpc = "s_codeq"
               /\ wk'[g].active = wk[g].active /\ wk'[g].ns = wk[g].ns]_vars
    /\ [][\A g \in Gens :
            (RunsQueued(g) /\ Head(wk[g].codeq) = "set1")
            => /\ wk'[g].ns.step = 1 /\ wk'[g].codeq = Tail(wk[g].codeq)
               /\ stdout'[g] = stdout[g]]_vars
    /\ [][\A g \in Gens :
            (wk[g].mpc = "s_codeq" /\ wk'[g].alive)
            => /\ wk'[g].mpc \in {"s_codeq", "s_join"}
               /\ wk'[g].mpc = "s_join" => wk[g].codeq = <<>> /\ wk'[g].thr = "running"]_vars

\* Queued code raised and was reported; another code is queued and not yet
\* run, and the loop is still at its queue with the stream active.
C32_Witness ==
    /\ wk[1].mpc = "s_codeq" /\ wk[1].codeq = <<"set1">> /\ wk[1].active
    /\ wk[1].ns.step = Unbound
    /\ stdout[1] # <<>> /\ stdout[1][Len(stdout[1])] = Msg("stderr", 0, "", 0)

\* C33: code sent with stream-exec is run only by the loop of the stream
\* during which it was written.  With "set1" written only while the loop of
\* stream 2 runs: the main loop never runs it (a stream-exec it dispatches
\* leaves namespace and queue alone), every loop starts with an empty queue,
\* and the loop that runs it is that of stream 2.
C33_CodeOfItsStream ==
    /\ [][\A g \in Gens :
            (wk[g].mpc = "dispatch" /\ wk[g].cur.type = "stream-exec" /\ wk'[g].alive)
            => wk'[g].ns = wk[g].ns /\ wk'[g].codeq = wk[g].codeq]_vars
    /\ [][\A g \in Gens :
            (wk[g].mpc = "dispatch" /\ wk'[g].mpc = "s_while") => wk'[g].codeq = <<>>]_vars
    /\ [][\A g \in Gens :
            (RunsQueued(g) /\ Head(wk[g].codeq) = "set1") => wk[g].cur.id = 2]_vars

\* C34: a blank or non-JSON line on the worker's input is discarded in every
\* state: the step that takes such a line off stdin does not end the process.
C34_BadLineDiscarded ==
    [][\A g \in Gens :
         ( /\ wk[g].alive /\ stdin[g] # <<>> /\ Head(stdin[g]) \in {Blank, Junk}
           /\ stdin'[g] # stdin[g] /\ Len(stdin'[g]) < Len(stdin[g]) )
         => wk'[g].alive]_vars

C36_Original ==
    /\ \A g \in Gens : inClosed[g] ~> ~wk[g].alive
    /\ [][\A g \in Gens :
            (\E i \in 1..Len(wk[g].leftover) : wk[g].leftover[i] = NoneMsg)
            => Len(stdout'[g]) <= Len(stdout[g])]_vars

\* C36, amended: with its threads scheduled and its output read, a worker
\* whose input is closed terminates.  The main loop that reads the EOF ends
\* the process without emitting anything; the reader thread that reads it
\* during a stream only clears _streaming_active, so that the loop still
\* emits what is left of its iteration and stream-done; an ended process
\* emits nothing.
C36_EofEndsProcess ==
    /\ \A g \in Gens : inClosed[g] ~> ~wk[g].alive
    /\ [][\A g \in Gens :
            ( /\ wk[g].alive /\ wk[g].mpc = "read" /\ stdin[g] = <<>> /\ inClosed[g]
              /\ wk'[g].mpc # "read" )
            => ~wk'[g].alive /\ stdout'[g] = stdout[g]]_vars
    /\ [][\A g \in Gens :
            ( /\ wk[g].alive /\ wk[g].rdr = "reading" /\ stdin[g] = <<>> /\ inClosed[g]
              /\ wk'[g].rdr = "none" /\ wk'[g].mpc = wk[g].mpc )
            => /\ wk'[g].alive /\ ~wk'[g].active /\ stdout'[g] = stdout[g]
               /\ wk'[g].leftover = Append(wk[g].leftover, NoneMsg)]_vars
    /\ [][\A g \in Gens : ~wk[g].alive => Len(stdout'[g]) <= Len(stdout[g])]_vars

\* The reader of a stream that only a stop can end has read the EOF, and
\* the loop is about to emit its stream-done.
C36_Witness ==
    /\ wk[1].alive /\ wk[1].mpc = "s_finally" /\ wk[1].cur.code = "inf"
    /\ inClosed[1] /\ stdin[1] = <<>> /\ ~wk[1].active
    /\ \E i \in 1..Len(wk[1].leftover) : wk[1].leftover[i] = NoneMsg

\* C37: ensure_initialized waits for ready / error for a bounded time: a
\* request thread inside its read loop leaves it, also when the worker is
\* alive and emits neither.
C37_InitWaitEnds ==
    \A c \in Clients : cl[c].pc = "ens_read" ~> cl[c].pc # "ens_read"

\* The stream-data of q carry the numbers n+1, n+2, ... in this order.
RECURSIVE Consecutive(_, _)
Consecutive(n, q) ==
    \/ q = <<>>
    \/ /\ q # <<>>
       /\ IF Head(q).type = "stream-data"
          THEN Head(q).val = n + 1 /\ Consecutive(n + 1, Tail(q))
          ELSE Consecutive(n, Tail(q))

\* C38: within one stream the lists returned by successive drain_stream_queue
\* calls, put end to end, are the messages the reader enqueued, in order and
\* each once: what the calls have returned so far ends with message number
\* plast, and the list being collected, the queue and the pipe behind it
\* continue with plast+1, plast+2, ...; once everything has been handed
\* over, every message written was returned.  A call returns an empty list
\* only out of its wait on an empty queue.
C38_DrainInOrderOnce ==
    /\ [](LET g == 1
              cur == IF cl[1].pc \in {"d_wait", "d_loop"} THEN cl[1].res.msgs ELSE <<>>
          IN /\ Consecutive(hs[g].plast, cur \o se[g].squeue \o stdout[g])
             /\ ( envLeft = 0 /\ cur = <<>> /\ se[g].squeue = <<>> /\ stdout[g] = <<>> )
                => hs[g].plast = MaxEnv /\ hs[g].pdone = 1 /\ ~hs[g].pbad)
    /\ [][( cl[1].pc \in {"d_wait", "d_loop"} /\ cl'[1].pc = "idle"
            /\ cl'[1].res.msgs = <<>> )
          => cl[1].pc = "d_wait" /\ se[1].squeue = <<>>]_vars

\* A call has returned the first two messages the reader enqueued, in order.
C38_Witness ==
    /\ cl[1].pc = "idle" /\ cl[1].op = "stream-poll"
    /\ Len(cl[1].res.msgs) = 2 /\ cl[1].res.msgs[1].val = 1 /\ cl[1].res.msgs[2].val = 2
    /\ hs[1].plast = 2

\* C39: every non-empty write of executed code to sys.stdout / sys.stderr
\* yields one message with that text, also when two threads write at the
\* same time: a thread that calls write() with a text goes on to send it,
\* and the send emits one message of that type with that text.
C39_EveryWriteSent ==
    /\ [][\A g \in Gens :
            (hw'[g].outs # hw[g].outs \/ hw'[g].errs # hw[g].errs)
            => \E t \in Threads :
                 /\ wk[g].wr[t] = NoWrite /\ wk'[g].wr[t] # NoWrite
                 /\ \/ /\ wk'[g].wr[t].type = "stdout" /\ hw'[g].outs # hw[g].outs
                       /\ wk'[g].wr[t].text = hw'[g].outs[Len(hw'[g].outs)]
                    \/ /\ wk'[g].wr[t].type = "stderr" /\ hw'[g].errs # hw[g].errs
                       /\ wk'[g].wr[t].text = hw'[g].errs[Len(hw'[g].errs)]]_vars
    /\ [][\A g \in Gens : \A t \in Threads :
            (wk[g].wr[t] # NoWrite /\ wk'[g].wr[t] = NoWrite)
            => stdout'[g] = Append(stdout[g],
                                   Msg(wk[g].wr[t].type, 0, "", wk[g].wr[t].text))]_vars

\* C40: a Session whose _initialized flag is set has a worker whose
\* _initialized flag is set, as long as that worker runs; so every exec,
\* eval or stream-start in the worker's input or taken up by its main loop
\* finds it initialized, and no "Worker not initialized" error is in the
\* worker's output.
C40_SessionInitImpliesWorkerInit ==
    \A g \in Gens : wk[g].alive =>
        /\ se[g].init => wk[g].init
        /\ \A i \in 1..Len(stdin[g]) :
              stdin[g][i].type \in {"exec", "eval", "stream-start"} => wk[g].init
        /\ ( wk[g].mpc = "dispatch"
             /\ wk[g].cur.type \in {"exec", "eval", "stream-start"} ) => wk[g].init
        /\ \A i \in 1..Len(stdout[g]) : stdout[g][i].code # "not_initialized"

\* The dispatcher has written a stream-start to the initialized worker of an
\* initialized Session.
C40_Witness ==
    /\ wk[1].alive /\ se[1].init /\ wk[1].init
    /\ stdin[1] # <<>> /\ Head(stdin[1]).type = "stream-start"

====
